---------------------------- MODULE Spec2Model ----------------------------
(***************************************************************************)
(* Make-It-Heavy (web UI version): the agent tool-calling loop of          *)
(* src/agent.py (OpenRouterAgent.run, GeminiAgent.run) and the five-stage  *)
(* Megamind pipeline of src/megamind_orchestrator.py.                      *)
(*                                                                         *)
(* The specifications of the module:                                       *)
(*   SpecAgent      one agent object running one conversation against a   *)
(*                  provider whose replies are a script fixed at           *)
(*                  construction;                                          *)
(*   SpecTools      the same run after any remove_tool calls, against tool *)
(*                  calls that fail;                                       *)
(*   SpecPipe       one MegamindOrchestrator.orchestrate call, the         *)
(*                  orchestrating thread interleaved with the pool workers;*)
(*   SpecQuestions  that call over the answers of the question agent;      *)
(*   SpecComplete   that call against a provider that completes at once;   *)
(*   SpecPoll       several calls on one object while a thread polls       *)
(*                  get_progress_status.                                   *)
(*                                                                         *)
(* A Python str is a sequence of symbols.  A symbol is one character, or   *)
(* one chunk of prose whose length is never measured.  None is kept apart  *)
(* from the empty str: a message content is [none, text].                  *)
(***************************************************************************)
EXTENDS Integers, Sequences, FiniteSets, TLC

VARIABLES
    \* ---- agent (src/agent.py) ----
    provider,               \* "openrouter" | "gemini": which class create_agent built
    cfg_max_iterations,     \* config['agent']['max_iterations']: [present, value]
    script,                 \* the provider's replies, cycled turn after turn
    tool_mapping,           \* self.tool_mapping: the invokable tool names
    tools,                  \* self.tools: the names whose schema goes to the provider
    config_tools,           \* Gemini: the tools of the local config run builds once
    removed,                \* history: the names remove_tool was called with
    offered,                \* history: every name whose schema a completion call carried
    invoked,                \* history: every name whose function was called
    apc,                    \* position of run: created | loop | tools | returned | raised
    iteration,              \* local iteration of run
    messages,               \* messages (OpenRouter) / contents (Gemini)
    full_response_content,  \* local list of run
    tool_calls,             \* the batch being handled
    call_idx,               \* index of the next call of the batch
    task_completed,         \* local flag of run
    function_response_parts,\* Gemini: results gathered for the batch
    run_result,             \* what run returned (a str) once apc = "returned"
    by_sentinel,            \* history: run returned from the mark_task_complete branch
    llm_calls,              \* history: number of call_llm invocations
    events,                 \* history: "llm" and every tool call handled, in order
    turn_texts,             \* history: the assistant content of every turn, in order
    \* ---- orchestrator (src/megamind_orchestrator.py) ----
    user_input,             \* the query given to orchestrate
    llm,                    \* what the provider can make an agent run end with
    ppc,                    \* position of the orchestrating thread
    frame,                  \* locals of the stage function being executed
    loop_i,                 \* index of the for loop being executed
    stage_progress,         \* self.stage_progress
    agent_progress,         \* self.agent_progress
    all_results,            \* all_results of orchestrate
    callbacks,              \* the labels status_callback was called with, in order
    tasks,                  \* the futures of the pool: state and result per agent
    pending,                \* as_completed: futures not yet harvested
    ready,                  \* as_completed: futures harvested, not yet yielded
    results,                \* local results of the fan-out function
    perror,                 \* the exception orchestrate raised, once ppc = "raised"
    late,                   \* history: the futures pending when the timeout expired
    calls_left,             \* how many orchestrate calls the caller still makes
    \* ---- a thread polling get_progress_status (src/web_server.py) ----
    rpc,                    \* position of the reader: idle | copied_stages
    snap_stages,            \* self.stage_progress.copy(), taken under the lock
    held,                   \* history: the tracker states held during the current call
    torn,                   \* history: a call returned a pair the tracker never held
    \* ---- a run thread of the web server and its monitor (src/web_server.py) ----
    route,                  \* the endpoint that started the thread: single | multi | megamind
    num_agents,             \* /api/run/multi: orchestrator.num_agents
    wpc,                    \* position of the run thread: idle | running | finished
    run_puts,               \* the events the run thread put on q, before and after the run
    monitoring,             \* the progress_monitor thread has been started
    last_status,            \* last_status of progress_monitor: the status last put per key
    seen_at_done,           \* history: last_status when the run thread put 'done'
    \* ---- the session registry of the web server (src/web_server.py) ----
    progress_queues,        \* progress_queues[session_id]: the queue registered, 0 if none
    queues,                 \* the events waiting in the queue each request created
    req_pc,                 \* per request: none | registered | running | working | finished | dead
    thread_q,               \* per request: the q its run thread looked up, 0 for None
    reader_pc,              \* per stream: none | reading | closing | closed
    reader_q,               \* per stream: the q generate looked up, 0 for None
    put_log,                \* history: <<run, queue>> for every event a run thread put
    del_log                 \* history: <<queue read, queue removed>> for every del

agent_vars == <<provider, cfg_max_iterations, script, tool_mapping, tools, config_tools,
                removed,
                offered, invoked, apc, iteration,
                messages, full_response_content, tool_calls, call_idx, task_completed,
                function_response_parts, run_result, by_sentinel, llm_calls, events,
                turn_texts>>

poll_vars == <<rpc, snap_stages, held, torn>>

run_vars == <<route, num_agents, wpc, run_puts, monitoring, last_status, seen_at_done>>

sess_vars == <<progress_queues, queues, req_pc, thread_q, reader_pc, reader_q, put_log,
               del_log>>

web_vars == <<run_vars, sess_vars>>

orch_vars == <<user_input, llm, ppc, frame, loop_i, stage_progress, agent_progress,
               all_results, callbacks, tasks, pending, ready, results, perror, late,
               calls_left, poll_vars>>

pipe_vars == <<orch_vars, web_vars>>

vars == <<agent_vars, pipe_vars>>

----------------------------------------------------------------------------
(* Bounds of the model *)

\* longest provider script (the script is cycled when the run is longer)
MaxScript == 2
\* largest configured max_iterations tried (besides absent, 0 and -1)
MaxConfigured == 2
\* most orchestrate calls made on one MegamindOrchestrator object
MaxCalls == 2

----------------------------------------------------------------------------
(* Strings *)

\* the separator of "\n\n".join(...)
BlankLine == "\n\n"

NoneContent == [none |-> TRUE, text |-> <<>>]

Str(t) == [none |-> FALSE, text |-> t]

\* Python truthiness of a message content: None and "" are falsy
Truthy(content) == (~content.none) /\ content.text # <<>>

RECURSIVE Join(_)
\* "\n\n".join(parts)
Join(parts) ==
    IF parts = <<>> THEN <<>>
    ELSE IF Len(parts) = 1 THEN parts[1]
    ELSE parts[1] \o <<BlankLine>> \o Join(Tail(parts))

----------------------------------------------------------------------------
(* json.loads on a str of symbols: one symbol per character, except the    *)
(* literals null / true / false and chunks of prose, one symbol each.      *)

Quote == "\""

Whitespace == {" ", BlankLine}

Digits == {"0", "1", "2", "3", "4", "5", "6", "7", "8", "9"}

RECURSIVE StripLeft(_)
StripLeft(t) ==
    IF t # <<>> /\ Head(t) \in Whitespace THEN StripLeft(Tail(t)) ELSE t

RECURSIVE StripRight(_)
StripRight(t) ==
    IF t # <<>> /\ t[Len(t)] \in Whitespace
    THEN StripRight(SubSeq(t, 1, Len(t) - 1)) ELSE t

\* str.strip()
Strip(t) == StripRight(StripLeft(t))

RECURSIVE SkipWs(_, _)
\* the first position from i on that holds no whitespace (Len(t) + 1 if none)
SkipWs(t, i) ==
    IF i <= Len(t) /\ t[i] \in Whitespace THEN SkipWs(t, i + 1) ELSE i

RECURSIVE FindQuote(_, _)
\* the position of the next quote from i on (0 if none)
FindQuote(t, i) ==
    IF i > Len(t) THEN 0
    ELSE IF t[i] = Quote THEN i
    ELSE FindQuote(t, i + 1)

RECURSIVE SkipDigits(_, _)
SkipDigits(t, i) ==
    IF i <= Len(t) /\ t[i] \in Digits THEN SkipDigits(t, i + 1) ELSE i

\* decoded values
StrVal(chars) == [t |-> "str", chars |-> chars]

NumVal(digits) == [t |-> "num", digits |-> digits]

ConstVal(name) == [t |-> "const", name |-> name]

ListVal(items) == [t |-> "list", items |-> items]

DictVal(keys, vals) == [t |-> "dict", keys |-> keys, vals |-> vals]

ParseFail == [ok |-> FALSE]

Parsed(val, next) == [ok |-> TRUE, val |-> val, next |-> next]

\* d[key] = val on a dict kept as parallel sequences in insertion order
DictSet(keys, vals, key, val) ==
    IF \E k \in 1..Len(keys) : keys[k] = key
    THEN [keys |-> keys,
          vals |-> [k \in 1..Len(keys) |-> IF keys[k] = key THEN val ELSE vals[k]]]
    ELSE [keys |-> Append(keys, key), vals |-> Append(vals, val)]

RECURSIVE ParseValue(_, _)
RECURSIVE ParseItems(_, _, _)
RECURSIVE ParseMembers(_, _, _, _)

\* the items of an array after "[" or ","; i is at the start of an item
ParseItems(t, i, acc) ==
    LET v == ParseValue(t, i)
    IN  IF ~v.ok THEN ParseFail
        ELSE LET j == SkipWs(t, v.next)
             IN  IF j > Len(t) THEN ParseFail
                 ELSE IF t[j] = "," THEN ParseItems(t, j + 1, Append(acc, v.val))
                 ELSE IF t[j] = "]" THEN Parsed(ListVal(Append(acc, v.val)), j + 1)
                 ELSE ParseFail

\* the members of an object after "{" or ","
ParseMembers(t, i, keys, vals) ==
    LET k == SkipWs(t, i)
    IN  IF k > Len(t) \/ t[k] # Quote THEN ParseFail
        ELSE LET key == ParseValue(t, k)
             IN  IF ~key.ok THEN ParseFail
                 ELSE LET c == SkipWs(t, key.next)
                      IN  IF c > Len(t) \/ t[c] # ":" THEN ParseFail
                          ELSE LET v == ParseValue(t, c + 1)
                               IN  IF ~v.ok THEN ParseFail
                                   ELSE LET j == SkipWs(t, v.next)
                                            d == DictSet(keys, vals, key.val.chars, v.val)
                                        IN  IF j > Len(t) THEN ParseFail
                                            ELSE IF t[j] = ","
                                            THEN ParseMembers(t, j + 1, d.keys, d.vals)
                                            ELSE IF t[j] = "}"
                                            THEN Parsed(DictVal(d.keys, d.vals), j + 1)
                                            ELSE ParseFail

\* one JSON value starting at or after position i
ParseValue(t, i) ==
    LET s == SkipWs(t, i)
    IN  IF s > Len(t) THEN ParseFail
        ELSE IF t[s] = Quote
        THEN LET e == FindQuote(t, s + 1)
             IN  IF e = 0 THEN ParseFail
                 ELSE Parsed(StrVal(SubSeq(t, s + 1, e - 1)), e + 1)
        ELSE IF t[s] \in Digits
        THEN LET e == SkipDigits(t, s)
             IN  Parsed(NumVal(SubSeq(t, s, e - 1)), e)
        ELSE IF t[s] \in {"null", "true", "false"}
        THEN Parsed(ConstVal(t[s]), s + 1)
        ELSE IF t[s] = "["
        THEN LET n == SkipWs(t, s + 1)
             IN  IF n <= Len(t) /\ t[n] = "]" THEN Parsed(ListVal(<<>>), n + 1)
                 ELSE ParseItems(t, s + 1, <<>>)
        ELSE IF t[s] = "{"
        THEN LET n == SkipWs(t, s + 1)
             IN  IF n <= Len(t) /\ t[n] = "}" THEN Parsed(DictVal(<<>>, <<>>), n + 1)
                 ELSE ParseMembers(t, s + 1, <<>>, <<>>)
        ELSE ParseFail

\* json.loads(t): the value, or JSONDecodeError (empty text, bad syntax, extra data)
JsonLoads(t) ==
    LET v == ParseValue(t, 1)
    IN  IF v.ok /\ SkipWs(t, v.next) = Len(t) + 1
        THEN [ok |-> TRUE, val |-> v.val]
        ELSE [ok |-> FALSE, val |-> ConstVal("null")]

\* whether len(v) is defined (it raises TypeError on a number, None, True, False)
HasLen(v) == v.t \in {"list", "dict", "str"}

\* len(v)
PyLen(v) ==
    IF v.t = "list" THEN Len(v.items)
    ELSE IF v.t = "dict" THEN Len(v.keys)
    ELSE Len(v.chars)

----------------------------------------------------------------------------
(* The agent *)

Providers == {"openrouter", "gemini"}

Sentinel == "mark_task_complete"

\* the tools discover_tools found; BaseAgent.__init__ maps every one
DiscoveredTools == {"search", "calculator", Sentinel}

\* config.get('agent', {}).get('max_iterations', 10)
DefaultMaxIterations == 10

\* the config either lacks agent.max_iterations or gives it a value
AbsentConfig == [present |-> FALSE, value |-> 0]

ConfigValues ==
    {AbsentConfig} \cup {[present |-> TRUE, value |-> n] : n \in -1 .. MaxConfigured}

MaxIterations(cfg) == IF cfg.present THEN cfg.value ELSE DefaultMaxIterations

\* the two literal strings returned when nothing was gathered
ExhaustedIndicator(p) ==
    IF p = "openrouter"
    THEN <<"Maximum iterations reached. The agent may be stuck in a loop.">>
    ELSE <<"Maximum iterations reached.">>

\* What a provider may answer to one completion call.
Contents == {NoneContent, Str(<<>>), Str(<<"alpha">>), Str(<<"beta">>)}

Batches == {<<>>, <<"search">>, <<Sentinel>>, <<Sentinel, "search">>,
            <<"search", Sentinel>>}

\* tool_call.function.arguments: a JSON text.  "{}" decodes to a mapping, "{" does
\* not decode, "5" decodes to something that is no mapping.
EmptyObject == <<"{", "}">>

MalformedArgs == <<"{">>

NotAMapping == <<"5">>

ArgTexts == {EmptyObject, MalformedArgs, NotAMapping}

\* what the tool function does once called: it returns, or it raises
Outcomes == {"ok", "raises"}

\* a reply: the assistant content and the tool calls it asks for, each call a name,
\* an arguments text and what its function does if it is called
ReplyWith(content, calls, args, outcomes) ==
    [kind |-> "message", content |-> content, calls |-> calls, args |-> args,
     outcomes |-> outcomes]

\* a reply whose calls carry decodable arguments for tools that work
Reply(content, calls) ==
    ReplyWith(content, calls, [k \in 1..Len(calls) |-> EmptyObject],
              [k \in 1..Len(calls) |-> "ok"])

\* call_llm wraps every provider failure in one Exception
RaiseReply == [kind |-> "raise", content |-> NoneContent, calls |-> <<>>,
               args |-> <<>>, outcomes |-> <<>>]

\* Gemini only: a response without candidates
NoCandidates == [kind |-> "nocandidates", content |-> NoneContent, calls |-> <<>>,
                 args |-> <<>>, outcomes |-> <<>>]

Replies(p) ==
    {Reply(c, b) : c \in Contents, b \in Batches} \cup {RaiseReply}
        \cup (IF p = "gemini" THEN {NoCandidates} ELSE {})

Scripts(p) == UNION {[1..n -> Replies(p)] : n \in 1..MaxScript}

\* the reply to the i-th completion call of the run
ReplyAt(s, i) == s[((i - 1) % Len(s)) + 1]

\* a loop that tests the cap after the turn instead of before it
LoopGuardOffByOne(i, max) == i <= max

\* while iteration < max_iterations
LoopGuard(i, max) == i < max

\* a run that keeps only the text of the last turn
AccumulateLastOnly(full, content) ==
    IF Truthy(content) THEN <<content.text>> ELSE full

\* if assistant_message.content: full_response_content.append(...)
Accumulate(full, content) ==
    IF Truthy(content) THEN Append(full, content.text) ELSE full

\* a return that joins whatever was gathered, even nothing
FinalReturnJoinOnly(full, p) == Join(full)

\* the return after the loop
FinalReturn(full, p) ==
    IF full # <<>> THEN Join(full) ELSE ExhaustedIndicator(p)

\* tool_mapping[tool_name](**tool_args), when the function returns
ToolExecute(name) == [error |-> FALSE, kind |-> "result", tool |-> name]

\* {"error": f"Unknown tool: {tool_name}"}
UnknownTool(name) == [error |-> TRUE, kind |-> "Unknown tool", tool |-> name]

\* {"error": f"Tool execution failed: {str(e)}"}
ExecutionFailed(name) == [error |-> TRUE, kind |-> "Tool execution failed", tool |-> name]

\* whether the arguments reach the lookup as a mapping.  OpenRouter decodes a JSON
\* text (json.loads) and unpacks it (**tool_args); Gemini receives a mapping or
\* None from the SDK and decodes nothing.
ArgsDecode(p, call) == p = "gemini" \/ JsonLoads(call.args).ok

ArgsUnpack(p, call) == p = "gemini" \/ JsonLoads(call.args).val.t = "dict"

\* the try block of handle_tool_call, statement by statement: "failed" is any
\* exception raised inside it, "called" tells whether the tool function ran
ToolCallOutcome(p, mapping, call) ==
    IF ~ArgsDecode(p, call) THEN [kind |-> "failed", called |-> FALSE]
    ELSE IF call.name \notin mapping THEN [kind |-> "unknown", called |-> FALSE]
    ELSE IF ~ArgsUnpack(p, call) THEN [kind |-> "failed", called |-> FALSE]
    ELSE IF call.outcome = "raises" THEN [kind |-> "failed", called |-> TRUE]
    ELSE [kind |-> "result", called |-> TRUE]

PayloadOf(kind, name) ==
    CASE kind = "result" -> ToolExecute(name)
      [] kind = "unknown" -> UnknownTool(name)
      [] kind = "failed" -> ExecutionFailed(name)

\* a handle_tool_call without its except clause: the exception leaves it
HandleToolCallNoExcept(p, mapping, call) ==
    LET out == ToolCallOutcome(p, mapping, call)
    IN  [escaped |-> out.kind = "failed", called |-> out.called,
         payload |-> PayloadOf(out.kind, call.name)]

\* handle_tool_call: the payload for one call; except Exception lets nothing out
HandleToolCall(p, mapping, call) ==
    LET out == ToolCallOutcome(p, mapping, call)
    IN  [escaped |-> FALSE, called |-> out.called,
         payload |-> PayloadOf(out.kind, call.name)]

\* the tool calls of a reply, with the ids the provider gives them
CallsOf(reply, turn) ==
    [k \in 1..Len(reply.calls) |->
        [id |-> <<turn, k>>, name |-> reply.calls[k], args |-> reply.args[k],
         outcome |-> reply.outcomes[k]]]

\* a filter that keeps everything
WithoutNothing(names, tool_name) == names

\* remove_tool: the comprehension that keeps every entry but tool_name
Without(names, tool_name) == names \ {tool_name}

\* the fields of an agent object after __init__ and the locals of a run not begun
AgentFields ==
    /\ tool_mapping = DiscoveredTools
    /\ tools = DiscoveredTools
    /\ config_tools = {}
    /\ removed = {}
    /\ offered = {}
    /\ invoked = {}
    /\ iteration = 0
    /\ messages = <<>>
    /\ full_response_content = <<>>
    /\ tool_calls = <<>>
    /\ call_idx = 1
    /\ task_completed = FALSE
    /\ function_response_parts = <<>>
    /\ run_result = <<>>
    /\ by_sentinel = FALSE
    /\ llm_calls = 0
    /\ events = <<>>
    /\ turn_texts = <<>>

\* the agent object after __init__, before run
AgentConstructed == AgentFields /\ apc = "created"

\* the tools a completion call carries: self.tools read at the call (OpenRouter),
\* the config built before the loop (Gemini)
OfferedTools == IF provider = "gemini" THEN config_tools ELSE tools

\* run, up to the loop: the conversation is seeded (Gemini: and config is built)
StartRun ==
    /\ UNCHANGED pipe_vars
    /\ apc = "created"
    /\ apc' = "loop"
    /\ messages' = IF provider = "openrouter"
                   THEN <<[role |-> "system"], [role |-> "user"]>>
                   ELSE <<[role |-> "user"]>>
    /\ full_response_content' = <<>>
    /\ iteration' = 0
    /\ config_tools' = IF provider = "gemini" THEN tools ELSE {}
    /\ UNCHANGED <<provider, cfg_max_iterations, script, tool_mapping, tools, removed,
                   offered, invoked, tool_calls, call_idx, task_completed, function_response_parts, run_result,
                   by_sentinel, llm_calls, events, turn_texts>>

\* the loop condition fails: the return after the loop
LoopExit ==
    /\ UNCHANGED pipe_vars
    /\ apc = "loop"
    /\ ~LoopGuard(iteration, MaxIterations(cfg_max_iterations))
    /\ apc' = "returned"
    /\ run_result' = FinalReturn(full_response_content, provider)
    /\ UNCHANGED <<provider, cfg_max_iterations, script, config_tools, tool_mapping, tools, removed,
                   offered, invoked, iteration,
                   messages, full_response_content, tool_calls, call_idx,
                   task_completed, function_response_parts, by_sentinel, llm_calls,
                   events, turn_texts>>

\* a loop that takes a reply without tool calls for the final answer
AfterTurnStopsOnText(calls) == IF calls # <<>> THEN "tools" ELSE "returned"

\* where run goes after appending the assistant message: into the tool loop if the
\* message asks for tool calls, back to the while test if it asks for none
AfterTurn(calls) == IF calls # <<>> THEN "tools" ELSE "loop"

\* one turn: the completion call and what run does with the reply
CallLLM ==
    /\ UNCHANGED pipe_vars
    /\ apc = "loop"
    /\ LoopGuard(iteration, MaxIterations(cfg_max_iterations))
    /\ iteration' = iteration + 1
    /\ llm_calls' = llm_calls + 1
    /\ events' = Append(events, "llm")
    /\ offered' = offered \cup OfferedTools
    /\ LET reply == ReplyAt(script, iteration + 1)
           calls == CallsOf(reply, iteration + 1)
       IN  CASE reply.kind = "raise" ->
                  /\ apc' = "raised"
                  /\ UNCHANGED <<messages, full_response_content, tool_calls, call_idx,
                                 task_completed, function_response_parts, run_result,
                                 turn_texts>>
             [] reply.kind = "nocandidates" ->
                  \* Gemini: break, then the return after the loop
                  /\ apc' = "returned"
                  /\ run_result' = FinalReturn(full_response_content, provider)
                  /\ UNCHANGED <<messages, full_response_content, tool_calls, call_idx,
                                 task_completed, function_response_parts, turn_texts>>
             [] reply.kind = "message" ->
                  /\ messages' = Append(messages,
                        [role |-> "assistant", content |-> reply.content,
                         tool_calls |-> calls])
                  /\ full_response_content' =
                        Accumulate(full_response_content, reply.content)
                  /\ turn_texts' = Append(turn_texts, reply.content)
                  /\ apc' = AfterTurn(calls)
                  /\ IF calls # <<>>
                     THEN /\ tool_calls' = calls
                          /\ call_idx' = 1
                          /\ task_completed' = FALSE
                          /\ function_response_parts' = <<>>
                     ELSE /\ UNCHANGED <<tool_calls, call_idx, task_completed,
                                         function_response_parts>>
                  /\ UNCHANGED run_result
    /\ UNCHANGED <<provider, cfg_max_iterations, script, config_tools, tool_mapping, tools, removed,
                   invoked, by_sentinel>>

\* one pass of the for loop over the batch
HandleCall ==
    /\ UNCHANGED pipe_vars
    /\ apc = "tools"
    /\ call_idx <= Len(tool_calls)
    /\ LET call == tool_calls[call_idx]
           handled == HandleToolCall(provider, tool_mapping, call)
           payload == handled.payload
       IN  /\ events' = Append(events, call.name)
           /\ invoked' = IF handled.called THEN invoked \cup {call.name} ELSE invoked
           /\ IF handled.escaped
              THEN /\ apc' = "raised"
                   /\ UNCHANGED <<messages, task_completed, by_sentinel, run_result,
                                  call_idx, function_response_parts>>
              ELSE IF provider = "openrouter"
              THEN /\ messages' = Append(messages,
                         [role |-> "tool", tool_call_id |-> call.id,
                          name |-> call.name, content |-> payload])
                   /\ IF call.name = Sentinel
                      THEN /\ task_completed' = TRUE
                           /\ apc' = "returned"
                           /\ by_sentinel' = TRUE
                           /\ run_result' = Join(full_response_content)
                           /\ UNCHANGED call_idx
                      ELSE /\ call_idx' = call_idx + 1
                           /\ UNCHANGED <<task_completed, apc, by_sentinel, run_result>>
                   /\ UNCHANGED function_response_parts
              ELSE /\ task_completed' = (task_completed \/ call.name = Sentinel)
                   /\ function_response_parts' = Append(function_response_parts,
                         [name |-> call.name, response |-> payload])
                   /\ call_idx' = call_idx + 1
                   /\ UNCHANGED <<messages, apc, by_sentinel, run_result>>
    /\ UNCHANGED <<provider, cfg_max_iterations, script, config_tools, tool_mapping, tools, removed,
                   offered, iteration, full_response_content, tool_calls, llm_calls,
                   turn_texts>>

\* the for loop over the batch is over
BatchEnd ==
    /\ UNCHANGED pipe_vars
    /\ apc = "tools"
    /\ call_idx > Len(tool_calls)
    /\ IF provider = "gemini"
       THEN /\ messages' = Append(messages,
                  [role |-> "user", parts |-> function_response_parts])
            /\ IF task_completed
               THEN /\ apc' = "returned"
                    /\ by_sentinel' = TRUE
                    /\ run_result' = Join(full_response_content)
               ELSE /\ apc' = "loop"
                    /\ UNCHANGED <<by_sentinel, run_result>>
       ELSE /\ apc' = IF task_completed THEN "returned" ELSE "loop"
            /\ run_result' = IF task_completed THEN Join(full_response_content)
                             ELSE run_result
            /\ UNCHANGED <<messages, by_sentinel>>
    /\ UNCHANGED <<provider, cfg_max_iterations, script, config_tools, tool_mapping, tools, removed,
                   offered, invoked, iteration,
                   full_response_content, tool_calls, call_idx, task_completed,
                   function_response_parts, llm_calls, events, turn_texts>>


\* remove_tool(tool_name), called on the constructed agent before run
RemoveTool(tool_name) ==
    /\ UNCHANGED pipe_vars
    /\ apc = "created"
    /\ tools' = Without(tools, tool_name)
    /\ tool_mapping' = Without(tool_mapping, tool_name)
    /\ removed' = removed \cup {tool_name}
    /\ UNCHANGED <<provider, cfg_max_iterations, script, config_tools, offered, invoked, apc,
                   iteration, messages, full_response_content, tool_calls, call_idx,
                   task_completed, function_response_parts, run_result, by_sentinel,
                   llm_calls, events, turn_texts>>

\* remove_tool(tool_name), called by another thread while run is in its loop
RemoveToolInFlight(tool_name) ==
    /\ UNCHANGED pipe_vars
    /\ apc \in {"loop", "tools"}
    /\ tools' = Without(tools, tool_name)
    /\ tool_mapping' = Without(tool_mapping, tool_name)
    /\ removed' = removed \cup {tool_name}
    /\ UNCHANGED <<provider, cfg_max_iterations, script, config_tools, offered, invoked,
                   apc, iteration, messages, full_response_content, tool_calls, call_idx,
                   task_completed, function_response_parts, run_result, by_sentinel,
                   llm_calls, events, turn_texts>>

\* ---- providers that ask for tools which fail ----

\* a name discover_tools never found
UnknownName == "no_such_tool"

CallNames == {"search", Sentinel, UnknownName}

\* one call of a reply: <<name, arguments text, outcome of the function>>
ToolCalls == CallNames \X ArgTexts \X Outcomes

\* a reply of one call, alone or followed by a plain call of search
ToolReplies ==
    {ReplyWith(Str(<<"alpha">>), <<c[1]>>, <<c[2]>>, <<c[3]>>) : c \in ToolCalls}
        \cup {ReplyWith(Str(<<"alpha">>), <<c[1], "search">>, <<c[2], EmptyObject>>,
                        <<c[3], "ok">>) : c \in ToolCalls}

\* the provider repeats one such reply turn after turn
ToolScripts == {<<r>> : r \in ToolReplies}

----------------------------------------------------------------------------
(* The Megamind orchestrator *)

\* STAGES, in the order orchestrate runs them
StageNames == <<"question_generation", "parallel_research", "first_synthesis",
                "validation", "final_synthesis">>

StageSet == {StageNames[k] : k \in 1..Len(StageNames)}

\* a callback argument that is the stage key instead of its label
StageKey(stage) == stage

\* STAGES[stage]
StageLabel(stage) ==
    CASE stage = "question_generation" -> "Generating specialized questions"
      [] stage = "parallel_research" -> "Running parallel research agents"
      [] stage = "first_synthesis" -> "Synthesizing first draft"
      [] stage = "validation" -> "Running validation agents"
      [] stage = "final_synthesis" -> "Creating final answer"

\* agent_names of run_parallel_agents
ResearchAgents == <<"research", "analysis", "alternatives", "verification">>

\* the two agents run_validation submits
Validators == <<"validator_1", "validator_2">>

\* the agents of a fan-out stage, in submission order
BatchAgents(stage) ==
    IF stage = "parallel_research" THEN ResearchAgents ELSE Validators

FanOutAgents ==
    {ResearchAgents[k] : k \in 1..Len(ResearchAgents)}
        \cup {Validators[k] : k \in 1..Len(Validators)}

AgentIds == FanOutAgents \cup {"question_gen", "synthesis", "final"}

\* the agent id a single-agent stage reports under
StageAgent(stage) ==
    CASE stage = "question_generation" -> "question_gen"
      [] stage = "first_synthesis" -> "synthesis"
      [] stage = "final_synthesis" -> "final"

\* a key the dict does not hold
Absent == "absent"

NoEntry == [status |-> Absent, result |-> NoneContent]

\* an update that writes the status under every stage key
UpdateEveryStage(sp, stage, status) == [st \in StageSet |-> status]

\* update_stage
UpdateStage(sp, stage, status) == [sp EXCEPT ![stage] = status]

\* update_agent_progress
UpdateAgentProgress(ap, agent_id, status, result) ==
    [ap EXCEPT ![agent_id] = [status |-> status, result |-> result]]

\* all_results as orchestrate creates it
EmptyResults ==
    [questions |-> ListVal(<<>>), research_results |-> <<>>, first_draft |-> <<>>,
     validation_results |-> <<>>, final_result |-> <<>>]

NoFrame == [fn |-> "none"]

\* an exception on its way out of orchestrate: its class and str(e); stage is
\* history, the stage function it left, and no part of the exception
NoError == [type |-> "none", message |-> <<>>, stage |-> "none"]

Raised(type, message, stage) == [type |-> type, message |-> message, stage |-> stage]

\* a future: its state, the remove_tools argument it was submitted with, the dict
\* _run_agent returned and (history) how the agent run inside it ended and the
\* keys of agent.tool_mapping when agent.run was called
NoTask == [st |-> "none", result |-> [agent_id |-> "", status |-> "", response |-> <<>>],
           run |-> [raised |-> FALSE, text |-> <<>>],
           remove_tools |-> FALSE, tools |-> {}]

\* what agent.run does, seen from its caller: it returns a str or raises
Returns(text) == [raised |-> FALSE, text |-> text]

\* call_llm: raise Exception(f"LLM call failed: ...")
RunRaises == [raised |-> TRUE, text |-> <<"LLM call failed">>]

\* the texts a research, validation or synthesis agent may return
AnswerTexts == {<<"findings">>}

AgentRuns == {Returns(t) : t \in AnswerTexts} \cup {RunRaises}

UserInputs == {<<"What is 2+2?">>, <<"Why is the sky blue?">>}

\* ---- stage 1: the texts the question agent may return ----

QuoteText(chars) == <<Quote>> \o chars \o <<Quote>>

RECURSIVE CommaJoin(_)
CommaJoin(texts) ==
    IF texts = <<>> THEN <<>>
    ELSE IF Len(texts) = 1 THEN texts[1]
    ELSE texts[1] \o <<",", " ">> \o CommaJoin(Tail(texts))

\* the JSON text of an array of strings, as json.dumps writes it
ArrayText(strs) ==
    <<"[">> \o CommaJoin([k \in 1..Len(strs) |-> QuoteText(strs[k])]) \o <<"]">>

\* the JSON text of an object with these keys, every value 1
ObjectText(keys) ==
    <<"{">> \o CommaJoin([k \in 1..Len(keys) |-> QuoteText(keys[k]) \o <<":", " ", "1">>])
        \o <<"}">>

\* the same array as the transcript of two turns: a blank line inside, spaces around
TwoTurnArrayText(strs) ==
    <<" ", "[">> \o QuoteText(strs[1]) \o <<",">> \o QuoteText(strs[2]) \o <<",">>
        \o <<BlankLine>> \o QuoteText(strs[3]) \o <<",">> \o QuoteText(strs[4])
        \o <<"]", BlankLine>>

FourStrings == {<<<<"a">>, <<"b">>, <<"c">>, <<"d">>>>,
                <<<<"b">>, <<"a">>, <<"c">>, <<"d">>>>}

\* every way the model writes a 4-string array
Renderings(strs) == {ArrayText(strs), TwoTurnArrayText(strs)}

ValidResponses == UNION {Renderings(strs) : strs \in FourStrings}

\* texts json.loads rejects
MalformedResponses ==
    {<<>>, <<"Here are four questions">>,
     <<"[">> \o QuoteText(<<"a">>) \o <<",">>,
     ArrayText(<<<<"a">>, <<"b">>, <<"c">>, <<"d">>>>) \o <<"Hope this helps">>}

\* JSON values with a length other than 4
WrongLengthResponses ==
    {ArrayText(<<<<"a">>, <<"b">>, <<"c">>>>),
     ArrayText(<<<<"a">>, <<"b">>, <<"c">>, <<"d">>, <<"e">>>>),
     <<"[", "]">>,
     ObjectText(<<<<"a">>, <<"b">>, <<"c">>>>),
     QuoteText(<<"a", "b", "c">>)}

\* JSON values that are not arrays of strings but have length 4, or no length
OtherShapeResponses ==
    {ObjectText(<<<<"a">>, <<"b">>, <<"c">>, <<"d">>>>),
     QuoteText(<<"a", "b", "c", "d">>),
     <<"[", "1", ",", "2", ",", "3", ",", "4", "]">>,
     <<"5">>, <<"null">>}

StageOneResponses ==
    ValidResponses \cup MalformedResponses \cup WrongLengthResponses
        \cup OtherShapeResponses

\* ---- generate_questions ----

FallbackPrefixes ==
    <<"Research comprehensive information about: ",
      "Analyze and provide insights about: ",
      "Find alternative perspectives on: ",
      "Verify and cross-check facts about: ">>

\* a fallback whose last question forgets the query
FallbackForgetsQuery(query) ==
    ListVal([k \in 1..4 |->
        StrVal(IF k < 4 THEN <<FallbackPrefixes[k]>> \o query
               ELSE <<FallbackPrefixes[k]>>)])

\* the list built in the except branch
Fallback(query) ==
    ListVal([k \in 1..4 |-> StrVal(<<FallbackPrefixes[k]>> \o query)])

\* str(list) of a list of str
ReprList(v) ==
    <<"[">> \o CommaJoin([k \in 1..Len(v.items) |->
                 <<"'">> \o v.items[k].chars \o <<"'">>]) \o <<"]">>

\* a length test that lets four questions through to the fallback
AcceptQuestionsInverted(v) == PyLen(v) # 4

\* the test of line 197, passed: len(questions) == 4
AcceptQuestions(v) == PyLen(v) = 4

\* the try block and its except branch: what generate_questions does with the
\* outcome of agent.run.  kind is "return" (with the questions and the payload
\* recorded for question_gen) or "raise" (an exception the except clause lets by).
QuestionsOutcome(query, run) ==
    IF run.raised
    THEN [kind |-> "raise", error |-> "Exception", message |-> run.text,
          questions |-> ListVal(<<>>), payload |-> <<>>]
    ELSE LET decoded == JsonLoads(Strip(run.text))
         IN  IF ~decoded.ok
             THEN [kind |-> "return", error |-> "JSONDecodeError", message |-> <<>>,
                   questions |-> Fallback(query), payload |-> ReprList(Fallback(query))]
             ELSE IF ~HasLen(decoded.val)
             THEN [kind |-> "raise", error |-> "TypeError",
                   message |-> <<"object has no len()">>,
                   questions |-> ListVal(<<>>), payload |-> <<>>]
             ELSE IF ~AcceptQuestions(decoded.val)
             THEN [kind |-> "return", error |-> "ValueError", message |-> <<>>,
                   questions |-> Fallback(query), payload |-> ReprList(Fallback(query))]
             ELSE [kind |-> "return", error |-> "none", message |-> <<>>,
                   questions |-> decoded.val,
                   payload |-> run.text]

\* the orchestrator object after __init__, before orchestrate
OrchestratorConstructed ==
    /\ ppc = "idle"
    /\ frame = NoFrame
    /\ loop_i = 0
    /\ stage_progress = [st \in StageSet |-> Absent]
    /\ agent_progress = [a \in AgentIds |-> NoEntry]
    /\ all_results = EmptyResults
    /\ callbacks = <<>>
    /\ tasks = [a \in FanOutAgents |-> NoTask]
    /\ pending = {}
    /\ ready = {}
    /\ results = <<>>
    /\ perror = NoError
    /\ late = {}
    /\ rpc = "idle"
    /\ snap_stages = [st \in StageSet |-> Absent]
    /\ held = {}
    /\ torn = FALSE

\* what progress_monitor has put so far, per key: nothing
NothingSeen == [stages |-> [st \in StageSet |-> Absent], agents |-> [a \in AgentIds |-> Absent]]

NoPuts == [before |-> <<>>, after |-> <<>>]

\* the two requests that use one session_id, each with its run thread, the queue
\* it creates (named after it) and the stream opened for it
Requests == {1, 2}

\* progress_queues = {}: no session is registered, no thread or stream exists
NoSessions ==
    /\ progress_queues = 0
    /\ queues = [r \in Requests |-> <<>>]
    /\ req_pc = [r \in Requests |-> "none"]
    /\ thread_q = [r \in Requests |-> 0]
    /\ reader_pc = [r \in Requests |-> "none"]
    /\ reader_q = [r \in Requests |-> 0]
    /\ put_log = {}
    /\ del_log = {}

\* no request has reached the web server
NoWebRun ==
    /\ NoSessions
    /\ route = "none"
    /\ num_agents = 0
    /\ wpc = "idle"
    /\ run_puts = NoPuts
    /\ monitoring = FALSE
    /\ last_status = NothingSeen
    /\ seen_at_done = NothingSeen

\* the agent specification leaves the orchestrator unused
InitAgent ==
    /\ provider \in Providers
    /\ cfg_max_iterations \in ConfigValues
    /\ script \in Scripts(provider)
    /\ AgentConstructed
    /\ user_input = <<>>
    /\ llm = [stage_one |-> {}, agents |-> {}]
    /\ calls_left = 0
    /\ OrchestratorConstructed
    /\ NoWebRun

\* one agent whose provider asks for tools that fail; the caller may remove tools
\* before run
InitTools ==
    /\ provider \in Providers
    /\ cfg_max_iterations \in {[present |-> TRUE, value |-> n] : n \in 1..MaxConfigured}
    /\ script \in ToolScripts
    /\ AgentConstructed
    /\ user_input = <<>>
    /\ llm = [stage_one |-> {}, agents |-> {}]
    /\ calls_left = 0
    /\ OrchestratorConstructed
    /\ NoWebRun

\* the orchestrator specifications leave the stand-alone agent unused
NoStandAloneAgent ==
    /\ provider = "openrouter"
    /\ cfg_max_iterations = AbsentConfig
    /\ script = <<RaiseReply>>
    /\ AgentConstructed

\* one query; the question agent answers well, badly or fails; every other agent
\* run may succeed or fail
InitPipe ==
    /\ user_input = <<"What is 2+2?">>
    /\ llm = [stage_one |-> {Returns(ArrayText(<<<<"a">>, <<"b">>, <<"c">>, <<"d">>>>)),
                             Returns(<<"Here are four questions">>), RunRaises},
              agents |-> AgentRuns]
    /\ calls_left = 1
    /\ OrchestratorConstructed
    /\ NoWebRun
    /\ NoStandAloneAgent

\* what the provider puts beside the mark_task_complete call of its first reply:
\* no text at all (content is None), or some text
FirstTurnContents == {NoneContent, Str(<<"alpha">>)}

\* the str agent.run returns when the first reply of the provider carries this
\* content and the mark_task_complete call: one turn, its content kept if truthy,
\* then the return on the name of the call
SentinelFirstRun(content) == Join(Accumulate(<<>>, content))

\* one query; every agent run of the pipeline meets a provider that calls
\* mark_task_complete in its first reply
InitComplete ==
    /\ user_input = <<"What is 2+2?">>
    /\ llm = [stage_one |-> {Returns(SentinelFirstRun(c)) : c \in FirstTurnContents},
              agents |-> {Returns(SentinelFirstRun(c)) : c \in FirstTurnContents}]
    /\ calls_left = 1
    /\ OrchestratorConstructed
    /\ NoWebRun
    /\ NoStandAloneAgent

\* one object used for several orchestrate calls in a row while another thread
\* polls get_progress_status; every agent run succeeds
InitPoll ==
    /\ user_input = <<"What is 2+2?">>
    /\ llm = [stage_one |-> {Returns(ArrayText(<<<<"a">>, <<"b">>, <<"c">>, <<"d">>>>))},
              agents |-> {Returns(t) : t \in AnswerTexts}]
    /\ calls_left = MaxCalls
    /\ OrchestratorConstructed
    /\ NoWebRun
    /\ NoStandAloneAgent

\* any query; the question agent may answer any of the stage-1 texts or fail;
\* every other agent run succeeds
InitQuestions ==
    /\ user_input \in UserInputs
    /\ llm = [stage_one |-> {Returns(t) : t \in StageOneResponses} \cup {RunRaises},
              agents |-> {Returns(t) : t \in AnswerTexts}]
    /\ calls_left = 1
    /\ OrchestratorConstructed
    /\ NoWebRun
    /\ NoStandAloneAgent

\* the tracker as one value
Tracker(sp, ap) == [stages |-> sp, agents |-> ap]

\* progress_lock is free: no get_progress_status call is inside its with block
LockFree == rpc = "idle"

\* a write that takes no lock lands in the middle of a get_progress_status call
WhileReading(states, sp, ap) ==
    IF rpc = "idle" THEN states ELSE states \cup {Tracker(sp, ap)}

\* orchestrate is called, on a new object or on one that has run before:
\* self.stage_progress = {}, without the lock
Orchestrate ==
    /\ UNCHANGED <<agent_vars, web_vars, rpc, snap_stages, torn>>
    /\ ppc \in {"idle", "done"}
    /\ calls_left > 0
    /\ calls_left' = calls_left - 1
    /\ stage_progress' = [st \in StageSet |-> Absent]
    /\ held' = WhileReading(held, stage_progress', agent_progress)
    /\ frame' = NoFrame
    /\ loop_i' = 0
    /\ tasks' = [a \in FanOutAgents |-> NoTask]
    /\ pending' = {}
    /\ ready' = {}
    /\ results' = <<>>
    /\ late' = {}
    /\ ppc' = "reset_agents"
    /\ UNCHANGED <<user_input, llm, agent_progress, all_results, callbacks, perror>>

\* self.agent_progress = {}, without the lock; all_results is created and the
\* callback told of the first stage
Orch_ResetAgents ==
    /\ UNCHANGED <<agent_vars, web_vars, rpc, snap_stages, torn, calls_left>>
    /\ ppc = "reset_agents"
    /\ agent_progress' = [a \in AgentIds |-> NoEntry]
    /\ held' = WhileReading(held, stage_progress, agent_progress')
    /\ all_results' = EmptyResults
    /\ callbacks' = <<StageLabel("question_generation")>>
    /\ frame' = [fn |-> "generate_questions"]
    /\ ppc' = "gq_stage"
    /\ UNCHANGED <<user_input, llm, loop_i, stage_progress, tasks, pending, ready,
                   results, perror, late>>

\* generate_questions: update_stage('question_generation', 'IN_PROGRESS')
GQ_UpdateStage ==
    /\ UNCHANGED <<agent_vars, poll_vars, web_vars, calls_left>>
    /\ ppc = "gq_stage"
    /\ LockFree
    /\ stage_progress' = UpdateStage(stage_progress, "question_generation", "IN_PROGRESS")
    /\ ppc' = "gq_agent"
    /\ UNCHANGED <<user_input, llm, frame, loop_i, agent_progress, all_results, callbacks,
                   tasks, pending, ready, results, perror, late>>

\* generate_questions: update_agent_progress('question_gen', 'PROCESSING')
GQ_UpdateAgent ==
    /\ UNCHANGED <<agent_vars, poll_vars, web_vars, calls_left>>
    /\ ppc = "gq_agent"
    /\ LockFree
    /\ agent_progress' =
          UpdateAgentProgress(agent_progress, "question_gen", "PROCESSING", NoneContent)
    /\ ppc' = "gq_run"
    /\ UNCHANGED <<user_input, llm, frame, loop_i, stage_progress, all_results, callbacks,
                   tasks, pending, ready, results, perror, late>>

\* generate_questions: the agent is built and run, its answer decoded and tested
GQ_Run ==
    /\ UNCHANGED <<agent_vars, poll_vars, web_vars, calls_left>>
    /\ ppc = "gq_run"
    /\ \E run \in llm.stage_one :
          LET out == QuestionsOutcome(user_input, run)
          IN  /\ frame' = [fn |-> "generate_questions", run |-> run, out |-> out]
              /\ IF out.kind = "raise"
                 THEN /\ ppc' = "raised"
                      /\ perror' = Raised(out.error, out.message, "question_generation")
                 ELSE /\ ppc' = "gq_done_agent"
                      /\ UNCHANGED perror
    /\ UNCHANGED <<user_input, llm, loop_i, stage_progress, agent_progress, all_results,
                   callbacks, tasks, pending, ready, results, late>>

\* generate_questions: update_agent_progress('question_gen', 'COMPLETED', ...)
GQ_DoneAgent ==
    /\ UNCHANGED <<agent_vars, poll_vars, web_vars, calls_left>>
    /\ ppc = "gq_done_agent"
    /\ LockFree
    /\ agent_progress' = UpdateAgentProgress(agent_progress, "question_gen",
                              "COMPLETED", Str(frame.out.payload))
    /\ ppc' = "gq_done_stage"
    /\ UNCHANGED <<user_input, llm, frame, loop_i, stage_progress, all_results, callbacks,
                   tasks, pending, ready, results, perror, late>>

\* generate_questions: update_stage('question_generation', 'COMPLETED')
GQ_DoneStage ==
    /\ UNCHANGED <<agent_vars, poll_vars, web_vars, calls_left>>
    /\ ppc = "gq_done_stage"
    /\ LockFree
    /\ stage_progress' = UpdateStage(stage_progress, "question_generation", "COMPLETED")
    /\ ppc' = "gq_return"
    /\ UNCHANGED <<user_input, llm, frame, loop_i, agent_progress, all_results, callbacks,
                   tasks, pending, ready, results, perror, late>>

\* generate_questions returns; orchestrate stores the questions and goes on to
\* run_parallel_agents
GQ_Return ==
    /\ UNCHANGED <<agent_vars, poll_vars, web_vars, calls_left>>
    /\ ppc = "gq_return"
    /\ all_results' = [all_results EXCEPT !.questions = frame.out.questions]
    /\ callbacks' = Append(callbacks, StageLabel("parallel_research"))
    /\ frame' = [fn |-> "run_parallel_agents", stage |-> "parallel_research"]
    /\ results' = <<>>
    /\ ppc' = "batch_stage"
    /\ UNCHANGED <<user_input, llm, loop_i, stage_progress, agent_progress, tasks, pending,
                   ready, perror, late>>

\* ---- the fan-out stages: run_parallel_agents and run_validation ----

\* a _run_agent whose except branch reports an empty success
RunAgentResultHidesError(agent_id, run) ==
    [agent_id |-> agent_id, status |-> "success",
     response |-> IF run.raised THEN <<>> ELSE run.text]

\* _run_agent: the dict it returns, from the return statement or the except branch
RunAgentResult(agent_id, run) ==
    IF run.raised
    THEN [agent_id |-> agent_id, status |-> "error",
          response |-> <<"Error: ">> \o run.text]
    ELSE [agent_id |-> agent_id, status |-> "success", response |-> run.text]

\* iterating a decoded value: the items of a list, the keys of a dict, the
\* characters of a str
PyIter(v) ==
    IF v.t = "list" THEN v.items
    ELSE IF v.t = "dict" THEN [k \in 1..Len(v.keys) |-> StrVal(v.keys[k])]
    ELSE [k \in 1..Len(v.chars) |-> StrVal(<<v.chars[k]>>)]

\* a fan-out that leaves its last agent unsubmitted
SubmitAllButOne(stage, questions) == Len(BatchAgents(stage)) - 1

\* how many futures a fan-out stage submits: zip(agent_names, questions) stops at
\* the shorter of the two; run_validation submits two
SubmitCount(stage, questions) ==
    IF stage = "parallel_research"
    THEN IF Len(PyIter(questions)) < Len(ResearchAgents)
         THEN Len(PyIter(questions)) ELSE Len(ResearchAgents)
    ELSE Len(Validators)

\* a collection loop that is handed no future at all
SubmittedNone(stage, questions) == {}

\* futures: the agents whose task the stage submitted
Submitted(stage, questions) ==
    {BatchAgents(stage)[k] : k \in 1..SubmitCount(stage, questions)}

\* the third argument of executor.submit(self._run_agent, ...): False in
\* run_parallel_agents, True in run_validation
RemoveToolsArg(stage) == stage # "parallel_research"

\* the tools _run_agent keeps when remove_tools is set
KeptTools == {"search", "calculator"}

\* agent.remove_tool(tool_name) for every name of todo
RECURSIVE RemoveEach(_, _)
RemoveEach(names, todo) ==
    IF todo = {} THEN names
    ELSE LET tool_name == CHOOSE t \in todo : TRUE
         IN  RemoveEach(Without(names, tool_name), todo \ {tool_name})

\* _run_agent: the keys of agent.tool_mapping when agent.run is called
RunAgentTools(remove_tools) ==
    IF remove_tools
    THEN RemoveEach(DiscoveredTools, {t \in DiscoveredTools : t \notin KeptTools})
    ELSE DiscoveredTools

\* update_stage(<stage>, 'IN_PROGRESS')
Batch_UpdateStage ==
    /\ UNCHANGED <<agent_vars, poll_vars, web_vars, calls_left>>
    /\ ppc = "batch_stage"
    /\ LockFree
    /\ stage_progress' = UpdateStage(stage_progress, frame.stage, "IN_PROGRESS")
    /\ ppc' = "batch_queue"
    /\ loop_i' = 1
    /\ UNCHANGED <<user_input, llm, frame, agent_progress, all_results, callbacks, tasks,
                   pending, ready, results, perror, late>>

\* update_agent_progress(name, 'QUEUED'), one agent after the other
Batch_Queue ==
    /\ UNCHANGED <<agent_vars, poll_vars, web_vars, calls_left>>
    /\ ppc = "batch_queue"
    /\ LockFree
    /\ agent_progress' = UpdateAgentProgress(agent_progress,
                              BatchAgents(frame.stage)[loop_i], "QUEUED", NoneContent)
    /\ IF loop_i < Len(BatchAgents(frame.stage))
       THEN /\ loop_i' = loop_i + 1
            /\ UNCHANGED ppc
       ELSE /\ loop_i' = 1
            /\ ppc' = IF SubmitCount(frame.stage, all_results.questions) > 0
                      THEN "batch_submit" ELSE "batch_collect_start"
    /\ results' = <<>>
    /\ UNCHANGED <<user_input, llm, frame, stage_progress, all_results, callbacks, tasks,
                   pending, ready, perror, late>>

\* executor.submit(self._run_agent, ...), one future after the other
Batch_Submit ==
    /\ UNCHANGED <<agent_vars, poll_vars, web_vars, calls_left>>
    /\ ppc = "batch_submit"
    /\ tasks' = [tasks EXCEPT ![BatchAgents(frame.stage)[loop_i]].st = "submitted",
                              ![BatchAgents(frame.stage)[loop_i]].remove_tools =
                                  RemoveToolsArg(frame.stage)]
    /\ IF loop_i < SubmitCount(frame.stage, all_results.questions)
       THEN /\ loop_i' = loop_i + 1
            /\ UNCHANGED ppc
       ELSE /\ loop_i' = 0
            /\ ppc' = "batch_collect_start"
    /\ UNCHANGED <<user_input, llm, frame, stage_progress, agent_progress, all_results,
                   callbacks, pending, ready, results, perror, late>>

\* a pool worker takes a future: _run_agent up to update_agent_progress(PROCESSING)
TaskStart(a) ==
    /\ UNCHANGED <<agent_vars, poll_vars, web_vars, calls_left>>
    /\ tasks[a].st = "submitted"
    /\ LockFree
    /\ tasks' = [tasks EXCEPT ![a].st = "running"]
    /\ agent_progress' = UpdateAgentProgress(agent_progress, a, "PROCESSING", NoneContent)
    /\ UNCHANGED <<user_input, llm, ppc, frame, loop_i, stage_progress, all_results,
                   callbacks, pending, ready, results, perror, late>>

\* the worker ends _run_agent: the agent is built and run, the tracker updated,
\* the result dict returned (from the try block or from the except branch)
TaskFinish(a) ==
    /\ UNCHANGED <<agent_vars, poll_vars, web_vars, calls_left>>
    /\ tasks[a].st = "running"
    /\ LockFree
    /\ \E run \in llm.agents :
          /\ tasks' = [tasks EXCEPT ![a] = [st |-> "done",
                                            result |-> RunAgentResult(a, run),
                                            run |-> run,
                                            remove_tools |-> tasks[a].remove_tools,
                                            tools |-> RunAgentTools(tasks[a].remove_tools)]]
          /\ agent_progress' =
                IF run.raised
                THEN UpdateAgentProgress(agent_progress, a, "FAILED", NoneContent)
                ELSE UpdateAgentProgress(agent_progress, a, "COMPLETED", Str(run.text))
    /\ UNCHANGED <<user_input, llm, ppc, frame, loop_i, stage_progress, all_results,
                   callbacks, pending, ready, results, perror, late>>

\* as_completed(futures, timeout=self.task_timeout) is entered: the futures already
\* done are yielded first, the others are waited for
Batch_CollectStart ==
    /\ UNCHANGED <<agent_vars, poll_vars, web_vars, calls_left>>
    /\ ppc = "batch_collect_start"
    /\ LET all == Submitted(frame.stage, all_results.questions)
       IN  /\ ready' = {a \in all : tasks[a].st = "done"}
           /\ pending' = {a \in all : tasks[a].st # "done"}
    /\ ppc' = "batch_collect"
    /\ UNCHANGED <<user_input, llm, frame, loop_i, stage_progress, agent_progress,
                   all_results, callbacks, tasks, results, perror, late>>

\* the body of the for loop for one yielded future: results.append(future.result())
Batch_Yield ==
    /\ UNCHANGED <<agent_vars, poll_vars, web_vars, calls_left>>
    /\ ppc = "batch_collect"
    /\ \E a \in ready :
          /\ ready' = ready \ {a}
          /\ results' = Append(results, tasks[a].result)
    /\ UNCHANGED <<user_input, llm, ppc, frame, loop_i, stage_progress, agent_progress,
                   all_results, callbacks, tasks, pending, perror, late>>

\* as_completed wakes up: the futures that finished meanwhile are harvested
Batch_Wait ==
    /\ UNCHANGED <<agent_vars, poll_vars, web_vars, calls_left>>
    /\ ppc = "batch_collect"
    /\ ready = {}
    /\ \E a \in pending : tasks[a].st = "done"
    /\ ready' = {a \in pending : tasks[a].st = "done"}
    /\ pending' = {a \in pending : tasks[a].st # "done"}
    /\ UNCHANGED <<user_input, llm, ppc, frame, loop_i, stage_progress, agent_progress,
                   all_results, callbacks, tasks, results, perror, late>>

\* task_timeout expires while futures are pending: as_completed raises TimeoutError
\* from the for statement, outside the try of the loop body
Batch_Timeout ==
    /\ UNCHANGED <<agent_vars, poll_vars, web_vars, calls_left>>
    /\ ppc = "batch_collect"
    /\ ready = {}
    /\ pending # {}
    /\ late' = pending
    /\ perror' = Raised("TimeoutError", <<"futures unfinished">>, frame.stage)
    /\ ppc' = "batch_unwind"
    /\ UNCHANGED <<user_input, llm, frame, loop_i, stage_progress, agent_progress,
                   all_results, callbacks, tasks, pending, ready, results>>

\* the exception leaves the with block: shutdown(wait=True) joins the workers,
\* then run_parallel_agents / run_validation and orchestrate raise
Batch_Unwind ==
    /\ UNCHANGED <<agent_vars, poll_vars, web_vars, calls_left>>
    /\ ppc = "batch_unwind"
    /\ \A a \in Submitted(frame.stage, all_results.questions) : tasks[a].st = "done"
    /\ ppc' = "raised"
    /\ UNCHANGED <<user_input, llm, frame, loop_i, stage_progress, agent_progress,
                   all_results, callbacks, tasks, pending, ready, results, perror, late>>

\* every future was yielded: the with block ends (all workers are done)
Batch_LoopEnd ==
    /\ UNCHANGED <<agent_vars, poll_vars, web_vars, calls_left>>
    /\ ppc = "batch_collect"
    /\ ready = {}
    /\ pending = {}
    /\ ppc' = "batch_done_stage"
    /\ UNCHANGED <<user_input, llm, frame, loop_i, stage_progress, agent_progress,
                   all_results, callbacks, tasks, pending, ready, results, perror, late>>

\* update_stage(<stage>, 'COMPLETED')
Batch_DoneStage ==
    /\ UNCHANGED <<agent_vars, poll_vars, web_vars, calls_left>>
    /\ ppc = "batch_done_stage"
    /\ LockFree
    /\ stage_progress' = UpdateStage(stage_progress, frame.stage, "COMPLETED")
    /\ ppc' = "batch_return"
    /\ UNCHANGED <<user_input, llm, frame, loop_i, agent_progress, all_results, callbacks,
                   tasks, pending, ready, results, perror, late>>

\* the fan-out function returns results; orchestrate stores them and goes on to
\* the synthesis that follows
Batch_Return ==
    /\ UNCHANGED <<agent_vars, poll_vars, web_vars, calls_left>>
    /\ ppc = "batch_return"
    /\ IF frame.stage = "parallel_research"
       THEN /\ all_results' = [all_results EXCEPT !.research_results = results]
            /\ callbacks' = Append(callbacks, StageLabel("first_synthesis"))
            /\ frame' = [fn |-> "first_synthesis", stage |-> "first_synthesis"]
       ELSE /\ all_results' = [all_results EXCEPT !.validation_results = results]
            /\ callbacks' = Append(callbacks, StageLabel("final_synthesis"))
            /\ frame' = [fn |-> "final_synthesis", stage |-> "final_synthesis"]
    /\ results' = <<>>
    /\ ppc' = "syn_stage"
    /\ UNCHANGED <<user_input, llm, loop_i, stage_progress, agent_progress, tasks, pending,
                   ready, perror, late>>

\* ---- the synthesis stages: first_synthesis and final_synthesis ----

\* a synthesis whose except branch records the failure and returns nothing
SynthesisRecovers(run) ==
    IF run.raised
    THEN [status |-> "FAILED", result |-> NoneContent, raises |-> FALSE]
    ELSE [status |-> "COMPLETED", result |-> Str(run.text), raises |-> FALSE]

\* the try statement of first_synthesis / final_synthesis: the status recorded for
\* the agent and the stage, the result recorded for the agent, and whether the
\* function ends with raise e
SynthesisOutcome(run) ==
    IF run.raised
    THEN [status |-> "FAILED", result |-> NoneContent, raises |-> TRUE]
    ELSE [status |-> "COMPLETED", result |-> Str(run.text), raises |-> FALSE]

\* agent_names of first_synthesis
AgentNames == <<"Research", "Analysis", "Alternatives", "Verification">>

\* str.upper on the names of agent_names
Upper(name) ==
    CASE name = "Research" -> "RESEARCH"
      [] name = "Analysis" -> "ANALYSIS"
      [] name = "Alternatives" -> "ALTERNATIVES"
      [] name = "Verification" -> "VERIFICATION"

\* idx of first_synthesis: the position of agent_id in the list of research agent
\* ids, the first position for any other id
AgentIndex(agent_id) ==
    IF \E k \in 1..Len(ResearchAgents) : ResearchAgents[k] = agent_id
    THEN CHOOSE k \in 1..Len(ResearchAgents) : ResearchAgents[k] = agent_id
    ELSE 1

\* agent_responses_text of first_synthesis: one labeled section per element of
\* agent_results, in the order of agent_results
AgentResponsesText(agent_results) ==
    [k \in 1..Len(agent_results) |->
        [label |-> Upper(AgentNames[AgentIndex(agent_results[k].agent_id)]),
         response |-> agent_results[k].response]]

\* next((r['response'] for r in validation_results if r.get('agent_id') == id), '')
ValidationOf(validation_results, agent_id) ==
    IF \E k \in 1..Len(validation_results) : validation_results[k].agent_id = agent_id
    THEN validation_results[
             CHOOSE k \in 1..Len(validation_results) :
                 /\ validation_results[k].agent_id = agent_id
                 /\ \A j \in 1..(k - 1) : validation_results[j].agent_id # agent_id].response
    ELSE <<>>

\* what the synthesis prompt is filled with: the labeled sections for
\* first_synthesis, the two validations picked by agent id for final_synthesis
SynthesisPrompt(stage, res) ==
    IF stage = "first_synthesis"
    THEN AgentResponsesText(res.research_results)
    ELSE <<[label |-> "validation_1",
            response |-> ValidationOf(res.validation_results, "validator_1")],
           [label |-> "validation_2",
            response |-> ValidationOf(res.validation_results, "validator_2")]>>

\* update_stage(<stage>, 'IN_PROGRESS')
Syn_UpdateStage ==
    /\ UNCHANGED <<agent_vars, poll_vars, web_vars, calls_left>>
    /\ ppc = "syn_stage"
    /\ LockFree
    /\ stage_progress' = UpdateStage(stage_progress, frame.stage, "IN_PROGRESS")
    /\ ppc' = "syn_agent"
    /\ UNCHANGED <<user_input, llm, frame, loop_i, agent_progress, all_results, callbacks,
                   tasks, pending, ready, results, perror, late>>

\* update_agent_progress(<agent>, 'PROCESSING')
Syn_UpdateAgent ==
    /\ UNCHANGED <<agent_vars, poll_vars, web_vars, calls_left>>
    /\ ppc = "syn_agent"
    /\ LockFree
    /\ agent_progress' = UpdateAgentProgress(agent_progress, StageAgent(frame.stage),
                              "PROCESSING", NoneContent)
    /\ ppc' = "syn_run"
    /\ UNCHANGED <<user_input, llm, frame, loop_i, stage_progress, all_results, callbacks,
                   tasks, pending, ready, results, perror, late>>

\* the prompt is built, the agent built, stripped of its tools and run
Syn_Run ==
    /\ UNCHANGED <<agent_vars, poll_vars, web_vars, calls_left>>
    /\ ppc = "syn_run"
    /\ \E run \in llm.agents :
          frame' = [fn |-> frame.fn, stage |-> frame.stage, run |-> run,
                    prompt |-> SynthesisPrompt(frame.stage, all_results)]
    /\ ppc' = "syn_done_agent"
    /\ UNCHANGED <<user_input, llm, loop_i, stage_progress, agent_progress, all_results,
                   callbacks, tasks, pending, ready, results, perror, late>>

\* update_agent_progress(<agent>, 'COMPLETED', response), or FAILED in the except
Syn_DoneAgent ==
    /\ UNCHANGED <<agent_vars, poll_vars, web_vars, calls_left>>
    /\ ppc = "syn_done_agent"
    /\ LockFree
    /\ agent_progress' =
          UpdateAgentProgress(agent_progress, StageAgent(frame.stage),
                              SynthesisOutcome(frame.run).status,
                              SynthesisOutcome(frame.run).result)
    /\ ppc' = "syn_done_stage"
    /\ UNCHANGED <<user_input, llm, frame, loop_i, stage_progress, all_results, callbacks,
                   tasks, pending, ready, results, perror, late>>

\* update_stage(<stage>, 'COMPLETED') and return, or FAILED and raise e
Syn_DoneStage ==
    /\ UNCHANGED <<agent_vars, poll_vars, web_vars, calls_left>>
    /\ ppc = "syn_done_stage"
    /\ LockFree
    /\ stage_progress' =
          UpdateStage(stage_progress, frame.stage, SynthesisOutcome(frame.run).status)
    /\ IF SynthesisOutcome(frame.run).raises
       THEN /\ perror' = Raised("Exception", frame.run.text, frame.stage)
            /\ ppc' = "raised"
       ELSE /\ ppc' = "syn_return"
            /\ UNCHANGED perror
    /\ UNCHANGED <<user_input, llm, frame, loop_i, agent_progress, all_results, callbacks,
                   tasks, pending, ready, results, late>>

\* the synthesis returns; orchestrate stores the text and goes on to validation,
\* or returns all_results
Syn_Return ==
    /\ UNCHANGED <<agent_vars, poll_vars, web_vars, calls_left>>
    /\ ppc = "syn_return"
    /\ IF frame.stage = "first_synthesis"
       THEN /\ all_results' = [all_results EXCEPT !.first_draft = frame.run.text]
            /\ callbacks' = Append(callbacks, StageLabel("validation"))
            /\ frame' = [fn |-> "run_validation", stage |-> "validation"]
            /\ ppc' = "batch_stage"
       ELSE /\ all_results' = [all_results EXCEPT !.final_result = frame.run.text]
            /\ frame' = NoFrame
            /\ ppc' = "done"
            /\ UNCHANGED callbacks
    /\ UNCHANGED <<user_input, llm, loop_i, stage_progress, agent_progress, tasks, pending,
                   ready, results, perror, late>>

\* ---- get_progress_status, called by a polling thread ----

\* the lock is taken and 'stages': self.stage_progress.copy() is evaluated
Poll_ReadStages ==
    /\ UNCHANGED <<agent_vars, web_vars>>
    /\ rpc = "idle"
    /\ snap_stages' = stage_progress
    /\ held' = {Tracker(stage_progress, agent_progress)}
    /\ rpc' = "copied_stages"
    /\ UNCHANGED <<user_input, llm, ppc, frame, loop_i, stage_progress, agent_progress,
                   all_results, callbacks, tasks, pending, ready, results, perror, late,
                   calls_left, torn>>

\* 'agents': self.agent_progress.copy() is evaluated, the dict returned and the
\* lock released
Poll_ReadAgents ==
    /\ UNCHANGED <<agent_vars, web_vars>>
    /\ rpc = "copied_stages"
    /\ torn' = (torn \/ Tracker(snap_stages, agent_progress) \notin held)
    /\ snap_stages' = [st \in StageSet |-> Absent]
    /\ held' = {}
    /\ rpc' = "idle"
    /\ UNCHANGED <<user_input, llm, ppc, frame, loop_i, stage_progress, agent_progress,
                   all_results, callbacks, tasks, pending, ready, results, perror, late,
                   calls_left>>

----------------------------------------------------------------------------
(* The run threads of the web server *)

Routes == {"single", "multi", "megamind"}

\* the values of orchestrator.num_agents the multi-agent route is explored with
AgentCounts == {1, 2}

\* q.put({'type': ...}): an event, by its type and, for progress events, its status
Event(type) == [type |-> type, status |-> ""]

ProgressEvent(status) == [type |-> "progress", status |-> status]

\* n events, one per agent: for i in range(num_agents): q.put(...)
PerAgent(n, event) == [i \in 1..n |-> event]

\* what the run thread puts before it calls agent.run / orchestrate
StartPuts(r, n) ==
    CASE r = "single" ->
            <<Event("status"), ProgressEvent("PROCESSING"), Event("status")>>
      [] r = "multi" ->
            <<Event("status"), Event("config")>> \o PerAgent(n, ProgressEvent("QUEUED"))
                \o <<Event("status")>>
      [] r = "megamind" -> <<Event("status"), Event("megamind_config")>>

\* what the run thread puts after the run has returned: the rest of the try block
SuccessPuts(r, n) ==
    CASE r = "single" -> <<ProgressEvent("COMPLETED"), Event("result"), Event("done")>>
      [] r = "multi" ->
            PerAgent(n, ProgressEvent("COMPLETED"))
                \o <<Event("thinking"), Event("result"), Event("done")>>
      [] r = "megamind" -> <<Event("megamind_thinking"), Event("result"), Event("done")>>

\* an except branch that reports the error and never closes the stream
ExceptPutsNoDone(r) ==
    (IF r = "single" THEN <<ProgressEvent("FAILED")>> ELSE <<>>) \o <<Event("error")>>

\* what the run thread puts in its except Exception branch
ExceptPuts(r) ==
    (IF r = "single" THEN <<ProgressEvent("FAILED")>> ELSE <<>>)
        \o <<Event("error"), Event("done")>>

\* status_callback of run_megamind_orchestrator: one 'status' event per call
CallbackPuts == [k \in 1..Len(callbacks) |-> Event("status")]

\* every event the run thread has put on q, in order
RunThreadEvents == run_puts.before \o CallbackPuts \o run_puts.after

\* run_agent, up to agent.run: three events and create_agent in between
RunAgent_Start ==
    /\ route = "single"
    /\ wpc = "idle"
    /\ run_puts' = [run_puts EXCEPT !.before = StartPuts(route, num_agents)]
    /\ apc' = "created"
    /\ wpc' = "running"
    /\ UNCHANGED <<provider, cfg_max_iterations, script, tool_mapping, tools, config_tools,
                   removed, offered, invoked, iteration, messages, full_response_content,
                   tool_calls, call_idx, task_completed, function_response_parts,
                   run_result, by_sentinel, llm_calls, events, turn_texts>>
    /\ UNCHANGED <<orch_vars, sess_vars, route, num_agents, monitoring, last_status, seen_at_done>>

\* run_agent, from the return of agent.run or from the exception it raised
RunAgent_End ==
    /\ route = "single"
    /\ wpc = "running"
    /\ apc \in {"returned", "raised"}
    /\ run_puts' = [run_puts EXCEPT !.after =
                        IF apc = "returned" THEN SuccessPuts(route, num_agents)
                        ELSE ExceptPuts(route)]
    /\ seen_at_done' = last_status
    /\ wpc' = "finished"
    /\ UNCHANGED <<agent_vars, orch_vars, sess_vars, route, num_agents, monitoring, last_status>>

\* run_orchestrator, up to orchestrator.orchestrate: the events are put, the
\* monitor thread started
RunOrchestrator_Start ==
    /\ route = "multi"
    /\ wpc = "idle"
    /\ run_puts' = [run_puts EXCEPT !.before = StartPuts(route, num_agents)]
    /\ monitoring' = TRUE
    /\ wpc' = "running"
    /\ UNCHANGED <<agent_vars, orch_vars, sess_vars, route, num_agents, last_status,
                   seen_at_done>>

\* run_orchestrator, from the return of orchestrate or from the exception it raised
RunOrchestrator_End ==
    /\ route = "multi"
    /\ wpc = "running"
    /\ \E returned \in BOOLEAN :
          run_puts' = [run_puts EXCEPT !.after =
                          IF returned THEN SuccessPuts(route, num_agents)
                          ELSE ExceptPuts(route)]
    /\ seen_at_done' = last_status
    /\ wpc' = "finished"
    /\ UNCHANGED <<agent_vars, orch_vars, sess_vars, route, num_agents, monitoring, last_status>>

\* run_megamind_orchestrator, up to orchestrator.orchestrate: two events, the
\* orchestrator is built, the monitor thread started
RunMegamind_Start ==
    /\ route = "megamind"
    /\ wpc = "idle"
    /\ run_puts' = [run_puts EXCEPT !.before = StartPuts(route, num_agents)]
    /\ monitoring' = TRUE
    /\ calls_left' = 1
    /\ wpc' = "running"
    /\ UNCHANGED <<agent_vars, user_input, llm, ppc, frame, loop_i, stage_progress,
                   agent_progress, all_results, callbacks, tasks, pending, ready, results,
                   perror, late, poll_vars, sess_vars, route, num_agents, last_status, seen_at_done>>

\* run_megamind_orchestrator, from the return of orchestrate or from the
\* exception it raised
RunMegamind_End ==
    /\ route = "megamind"
    /\ wpc = "running"
    /\ ppc \in {"done", "raised"}
    /\ run_puts' = [run_puts EXCEPT !.after =
                        IF ppc = "done" THEN SuccessPuts(route, num_agents)
                        ELSE ExceptPuts(route)]
    /\ seen_at_done' = last_status
    /\ wpc' = "finished"
    /\ UNCHANGED <<agent_vars, orch_vars, sess_vars, route, num_agents, monitoring, last_status>>

\* what get_progress_status returns: the status of every key the tracker holds
ProgressStatus ==
    [stages |-> stage_progress, agents |-> [a \in AgentIds |-> agent_progress[a].status]]

\* one pass of the for loops of progress_monitor: a key of current whose status
\* differs from last_status is put on q and remembered
Diffed(last, current) ==
    [stages |-> [st \in StageSet |->
                    IF current.stages[st] # Absent THEN current.stages[st]
                    ELSE last.stages[st]],
     agents |-> [a \in AgentIds |->
                    IF current.agents[a] # Absent THEN current.agents[a]
                    ELSE last.agents[a]]]

\* one turn of the while True loop of progress_monitor, which nothing ends
Monitor_Poll ==
    /\ monitoring
    /\ LockFree
    /\ last_status' = Diffed(last_status, ProgressStatus)
    /\ UNCHANGED <<agent_vars, orch_vars, sess_vars, route, num_agents, wpc, run_puts, monitoring,
                   seen_at_done>>

\* the replies the provider gives the agent of /api/run/single
WebScripts ==
    {<<Reply(Str(<<"alpha">>), <<>>)>>, <<Reply(Str(<<"alpha">>), <<"search">>)>>,
     <<Reply(Str(<<"alpha">>), <<Sentinel>>)>>, <<RaiseReply>>}

\* one request to one of the three run routes; its thread has not started
InitWeb ==
    /\ NoSessions
    /\ route \in Routes
    /\ num_agents \in (IF route = "multi" THEN AgentCounts ELSE {0})
    /\ wpc = "idle"
    /\ run_puts = NoPuts
    /\ monitoring = FALSE
    /\ last_status = NothingSeen
    /\ seen_at_done = NothingSeen
    /\ provider \in (IF route = "single" THEN Providers ELSE {"openrouter"})
    /\ cfg_max_iterations = [present |-> TRUE, value |-> MaxConfigured]
    /\ script \in (IF route = "single" THEN WebScripts ELSE {<<RaiseReply>>})
    /\ AgentFields
    /\ apc = "unbuilt"
    /\ user_input = <<"What is 2+2?">>
    /\ llm = [stage_one |-> {Returns(ArrayText(<<<<"a">>, <<"b">>, <<"c">>, <<"d">>>>)),
                             RunRaises},
              agents |-> {Returns(t) : t \in AnswerTexts}]
    /\ calls_left = 0
    /\ OrchestratorConstructed

----------------------------------------------------------------------------
(* The session registry of the web server *)

\* the handler of a run route: with progress_lock: progress_queues[session_id] =
\* queue.Queue(); then the run thread is started
Register(r) ==
    /\ req_pc[r] = "none"
    /\ progress_queues' = r
    /\ queues' = [queues EXCEPT ![r] = <<>>]
    /\ req_pc' = [req_pc EXCEPT ![r] = "registered"]
    /\ UNCHANGED <<agent_vars, orch_vars, run_vars, thread_q, reader_pc, reader_q, put_log,
                   del_log>>

\* the first statement of the run thread: q = progress_queues.get(session_id).
\* With q None the first q.put raises AttributeError inside the try, the q.put of
\* the except branch raises it again and the thread dies without an event
ThreadLookup(r) ==
    /\ req_pc[r] = "registered"
    /\ thread_q' = [thread_q EXCEPT ![r] = progress_queues]
    /\ req_pc' = [req_pc EXCEPT ![r] = IF progress_queues = 0 THEN "dead" ELSE "running"]
    /\ UNCHANGED <<agent_vars, orch_vars, run_vars, progress_queues, queues, reader_pc,
                   reader_q, put_log, del_log>>

\* q.put(event) by the run thread of request r
PutBy(r, type) ==
    /\ queues' = [queues EXCEPT ![thread_q[r]] = Append(@, [type |-> type, run |-> r])]
    /\ put_log' = put_log \cup {<<r, thread_q[r]>>}

\* the run thread puts its first event
ThreadPut(r) ==
    /\ req_pc[r] = "running"
    /\ PutBy(r, "status")
    /\ req_pc' = [req_pc EXCEPT ![r] = "working"]
    /\ UNCHANGED <<agent_vars, orch_vars, run_vars, progress_queues, thread_q, reader_pc,
                   reader_q, del_log>>

\* the run thread puts its last event, 'done'
ThreadDone(r) ==
    /\ req_pc[r] = "working"
    /\ PutBy(r, "done")
    /\ req_pc' = [req_pc EXCEPT ![r] = "finished"]
    /\ UNCHANGED <<agent_vars, orch_vars, run_vars, progress_queues, thread_q, reader_pc,
                   reader_q, del_log>>

\* stream_progress.generate starts, once the client has its session_id back:
\* q = progress_queues.get(session_id); without a queue it yields the error and
\* returns
ReaderOpen(r) ==
    /\ reader_pc[r] = "none"
    /\ req_pc[r] # "none"
    /\ reader_q' = [reader_q EXCEPT ![r] = progress_queues]
    /\ reader_pc' = [reader_pc EXCEPT ![r] = IF progress_queues = 0 THEN "closed"
                                             ELSE "reading"]
    /\ UNCHANGED <<agent_vars, orch_vars, run_vars, progress_queues, queues, req_pc,
                   thread_q, put_log, del_log>>

\* data = q.get(timeout=0.5) returns an event: it is yielded, and 'done' breaks
\* the loop
ReaderGet(r) ==
    /\ reader_pc[r] = "reading"
    /\ queues[reader_q[r]] # <<>>
    /\ queues' = [queues EXCEPT ![reader_q[r]] = Tail(@)]
    /\ reader_pc' = [reader_pc EXCEPT ![r] =
                         IF Head(queues[reader_q[r]]).type = "done" THEN "closing"
                         ELSE "reading"]
    /\ UNCHANGED <<agent_vars, orch_vars, run_vars, progress_queues, req_pc, thread_q,
                   reader_q, put_log, del_log>>

\* the client goes away: GeneratorExit breaks the loop
ReaderExit(r) ==
    /\ reader_pc[r] = "reading"
    /\ reader_pc' = [reader_pc EXCEPT ![r] = "closing"]
    /\ UNCHANGED <<agent_vars, orch_vars, run_vars, progress_queues, queues, req_pc,
                   thread_q, reader_q, put_log, del_log>>

\* after the loop: with progress_lock: if session_id in progress_queues:
\* del progress_queues[session_id]
ReaderClose(r) ==
    /\ reader_pc[r] = "closing"
    /\ progress_queues' = 0
    /\ del_log' = IF progress_queues = 0 THEN del_log
                  ELSE del_log \cup {<<reader_q[r], progress_queues>>}
    /\ reader_pc' = [reader_pc EXCEPT ![r] = "closed"]
    /\ UNCHANGED <<agent_vars, orch_vars, run_vars, queues, req_pc, thread_q, reader_q,
                   put_log>>

\* no request yet; the agent and the orchestrator behind the routes stay unused
InitSessions ==
    /\ NoWebRun
    /\ NoStandAloneAgent
    /\ user_input = <<>>
    /\ llm = [stage_one |-> {}, agents |-> {}]
    /\ calls_left = 0
    /\ OrchestratorConstructed

----------------------------------------------------------------------------
(* Specifications *)

NextAgent ==
    \/ StartRun
    \/ CallLLM
    \/ HandleCall
    \/ BatchEnd
    \/ LoopExit

\* run is one sequential thread: while it has a next statement it executes it
SpecAgent == InitAgent /\ [][NextAgent]_vars /\ WF_vars(NextAgent)

NextTools ==
    \/ \E tool_name \in DiscoveredTools : RemoveTool(tool_name)
    \/ StartRun
    \/ CallLLM
    \/ HandleCall
    \/ BatchEnd
    \/ LoopExit

\* remove_tool any number of times, then one run against failing tool calls
SpecTools == InitTools /\ [][NextTools]_vars

NextLive ==
    \/ \E tool_name \in DiscoveredTools : RemoveToolInFlight(tool_name)
    \/ StartRun
    \/ CallLLM
    \/ HandleCall
    \/ BatchEnd
    \/ LoopExit

\* one run of an agent that holds every discovered tool, while another thread
\* calls remove_tool on it
SpecLive == InitTools /\ [][NextLive]_vars

NextPipe ==
    \/ Orchestrate
    \/ Orch_ResetAgents
    \/ GQ_UpdateStage
    \/ GQ_UpdateAgent
    \/ GQ_Run
    \/ GQ_DoneAgent
    \/ GQ_DoneStage
    \/ GQ_Return
    \/ Batch_UpdateStage
    \/ Batch_Queue
    \/ Batch_Submit
    \/ \E a \in FanOutAgents : TaskStart(a)
    \/ \E a \in FanOutAgents : TaskFinish(a)
    \/ Batch_CollectStart
    \/ Batch_Yield
    \/ Batch_Wait
    \/ Batch_Timeout
    \/ Batch_Unwind
    \/ Batch_LoopEnd
    \/ Batch_DoneStage
    \/ Batch_Return
    \/ Syn_UpdateStage
    \/ Syn_UpdateAgent
    \/ Syn_Run
    \/ Syn_DoneAgent
    \/ Syn_DoneStage
    \/ Syn_Return

\* one orchestrate call and its pool workers
SpecPipe == InitPipe /\ [][NextPipe]_vars

\* the same call, explored over the answers of the question agent
SpecQuestions == InitQuestions /\ [][NextPipe]_vars

NextPoll ==
    \/ NextPipe
    \/ Poll_ReadStages
    \/ Poll_ReadAgents

\* orchestrate calls on one object, with a thread polling the tracker
SpecPoll == InitPoll /\ [][NextPoll]_vars

\* the same call against a provider that completes every agent run at once
SpecComplete == InitComplete /\ [][NextPipe]_vars

NextWeb ==
    \/ RunAgent_Start
    \/ RunAgent_End
    \/ RunOrchestrator_Start
    \/ RunOrchestrator_End
    \/ RunMegamind_Start
    \/ RunMegamind_End
    \/ Monitor_Poll
    \/ NextAgent
    \/ NextPipe

\* one run thread of the web server with what it runs: an agent, an orchestrator,
\* or the Megamind pipeline polled by progress_monitor
SpecWeb == InitWeb /\ [][NextWeb]_vars

NextSessions ==
    \/ \E r \in Requests : Register(r)
    \/ \E r \in Requests : ThreadLookup(r)
    \/ \E r \in Requests : ThreadPut(r)
    \/ \E r \in Requests : ThreadDone(r)
    \/ \E r \in Requests : ReaderOpen(r)
    \/ \E r \in Requests : ReaderGet(r)
    \/ \E r \in Requests : ReaderExit(r)
    \/ \E r \in Requests : ReaderClose(r)

\* the same, with threads that keep running: the run thread, the pool workers
\* and the monitor each take their next step when they have one
SpecWebLive == SpecWeb /\ WF_vars(NextWeb)

\* two requests with the same session_id, their run threads and their streams
SpecSessions == InitSessions /\ [][NextSessions]_vars

----------------------------------------------------------------------------
(* Properties of the agent loop, checked under SpecAgent *)

\* the script never asks for mark_task_complete and never fails
NeverSentinelNeverRaise ==
    \A k \in 1..Len(script) :
        /\ script[k].kind # "raise"
        /\ \A j \in 1..Len(script[k].calls) : script[k].calls[j] # Sentinel

\* the number of turns a cap allows: none when the cap is zero or negative
TurnCap == IF MaxIterations(cfg_max_iterations) > 0
           THEN MaxIterations(cfg_max_iterations) ELSE 0

AnyTruthy(contents) == \E k \in 1..Len(contents) : Truthy(contents[k])

RECURSIVE Transcript(_)
\* the non-empty texts of the turns, in turn order, a blank line between two of them
Transcript(contents) ==
    IF contents = <<>> THEN <<>>
    ELSE LET n == Len(contents)
             before == Transcript(SubSeq(contents, 1, n - 1))
         IN  IF ~Truthy(contents[n]) THEN before
             ELSE IF before = <<>> THEN contents[n].text
             ELSE before \o <<BlankLine>> \o contents[n].text

\* C1: with a provider that never emits mark_task_complete and never raises, run
\* makes at most max_iterations completion calls (10 when the config gives none,
\* none at all for a cap of zero or less) and terminates by returning.
Thm_C1 ==
    /\ [](NeverSentinelNeverRaise => llm_calls <= TurnCap)
    /\ [](NeverSentinelNeverRaise => <>(apc = "returned"))

\* C1 witness: a run under the default cap that returned after exactly 10 calls
Wit_C1 ==
    /\ NeverSentinelNeverRaise
    /\ ~cfg_max_iterations.present
    /\ apc = "returned"
    /\ llm_calls = DefaultMaxIterations

\* C8: whenever run returns after some turn produced a non-empty text, the
\* returned str is the non-empty texts of all turns executed, in turn order,
\* joined by a blank line; None and "" contribute nothing.
Thm_C8 ==
    (apc = "returned" /\ AnyTruthy(turn_texts))
        => run_result = Transcript(turn_texts)

\* C8 witness: a returned run of two turns with two different texts, both kept
Wit_C8 ==
    /\ apc = "returned"
    /\ Len(turn_texts) = 2
    /\ Truthy(turn_texts[1]) /\ Truthy(turn_texts[2])
    /\ turn_texts[1] # turn_texts[2]
    /\ run_result = turn_texts[1].text \o <<BlankLine>> \o turn_texts[2].text

\* C9 (the claim as stated): once a mark_task_complete call has been handled,
\* nothing follows it in the run: no later tool call of the batch is invoked and
\* no completion call is made.
CE_C9 ==
    \A i \in 1..Len(events) : events[i] = Sentinel => i = Len(events)

\* the cap stopped the run: the loop condition is false and no sentinel ended it
CapReached ==
    /\ apc = "returned"
    /\ ~by_sentinel
    /\ ~LoopGuard(iteration, MaxIterations(cfg_max_iterations))

\* C10: when the cap is reached without mark_task_complete, run returns the
\* transcript if some text was produced and the provider's fixed indicator
\* otherwise, never the empty str; with max_iterations <= 0 it returns the
\* indicator without any completion call.
Thm_C10 ==
    CapReached =>
        /\ run_result # <<>>
        /\ AnyTruthy(turn_texts) => run_result = Transcript(turn_texts)
        /\ ~AnyTruthy(turn_texts) => run_result = ExhaustedIndicator(provider)
        /\ MaxIterations(cfg_max_iterations) <= 0 =>
              (llm_calls = 0 /\ run_result = ExhaustedIndicator(provider))

\* C10 witness: the cap was reached after turns that produced no text
Wit_C10 ==
    /\ CapReached
    /\ llm_calls = MaxIterations(cfg_max_iterations)
    /\ llm_calls >= 2
    /\ ~AnyTruthy(turn_texts)
    /\ run_result = ExhaustedIndicator(provider)

\* a run of at least one turn whose first reply asks for mark_task_complete (first
\* in its batch) returns what SentinelFirstRun computes, whatever the tool does and whether or not it
\* was removed; holds under SpecAgent and SpecTools
SentinelFirstAgrees ==
    (/\ apc = "returned"
     /\ TurnCap >= 1
     /\ script[1].kind = "message"
     /\ script[1].calls # <<>>
     /\ script[1].calls[1] = Sentinel)
        => run_result = SentinelFirstRun(script[1].content)

----------------------------------------------------------------------------
(* Properties of tool handling, checked under SpecTools *)

\* run is about to pass the next call of the batch to handle_tool_call
HandlingCall == apc = "tools" /\ call_idx <= Len(tool_calls)

\* that call fails: its function raises, its arguments do not decode or unpack,
\* or its name is not in tool_mapping
HandlingFailingCall ==
    /\ HandlingCall
    /\ ToolCallOutcome(provider, tool_mapping, tool_calls[call_idx]).kind # "result"

\* the step recorded an error payload as the result of the call just handled:
\* a tool message under the call's id (OpenRouter), or the function-response part
\* at the call's position in the batch (Gemini)
ErrorRecorded ==
    LET call == tool_calls[call_idx]
    IN  IF provider = "openrouter"
        THEN /\ Len(messages') = Len(messages) + 1
             /\ messages'[Len(messages')].role = "tool"
             /\ messages'[Len(messages')].tool_call_id = call.id
             /\ messages'[Len(messages')].content.error
        ELSE /\ Len(function_response_parts') = call_idx
             /\ function_response_parts'[call_idx].name = call.name
             /\ function_response_parts'[call_idx].response.error

\* the for loop goes on to the next call of the batch
NextCall == apc' = "tools" /\ call_idx' = call_idx + 1

\* the batch is over without a completion call: the parts gathered (Gemini) join
\* the conversation and the while loop goes on to its next iteration
BatchOver == apc = "tools" /\ call_idx > Len(tool_calls)

NextIteration ==
    /\ apc' = "loop"
    /\ provider = "gemini" =>
          messages'[Len(messages')] = [role |-> "user", parts |-> function_response_parts]

SentinelInBatch == \E k \in 1..Len(tool_calls) : tool_calls[k].name = Sentinel

ResultsFor(name) ==
    IF provider = "openrouter"
    THEN {[args |-> ReplyAt(script, messages[i].tool_call_id[1]).args[
                        messages[i].tool_call_id[2]],
           payload |-> messages[i].content] :
            i \in {j \in 1..Len(messages) :
                      messages[j].role = "tool" /\ messages[j].name = name}}
    ELSE {[args |-> EmptyObject, payload |-> function_response_parts[i].response] :
            i \in {j \in 1..Len(function_response_parts) :
                      function_response_parts[j].name = name}}

NeverInvokedNorOffered == \A name \in removed : name \notin invoked /\ name \notin offered

\* C12 as stated: a removed tool is never invoked nor offered, and every call with
\* its name yields an Unknown-tool result.
CE_C12 ==
    /\ NeverInvokedNorOffered
    /\ \A name \in removed : \A r \in ResultsFor(name) : r.payload.kind = "Unknown tool"

\* C12: a tool removed before run is never invoked during the run and its schema
\* is in no completion call; a call with its name yields an error result, which
\* is the Unknown-tool result whenever the call's arguments decode (OpenRouter
\* decodes the arguments before it looks the name up: undecodable arguments yield
\* the execution-failed result instead).
Thm_C12 ==
    /\ NeverInvokedNorOffered
    /\ \A name \in removed : \A r \in ResultsFor(name) :
          /\ r.payload.error
          /\ r.payload.kind = IF JsonLoads(r.args).ok THEN "Unknown tool"
                              ELSE "Tool execution failed"

\* C12 witness: search was removed, the provider offered the other tools, asked
\* for search all the same and got the Unknown-tool result
Wit_C12 ==
    /\ "search" \in removed
    /\ offered = DiscoveredTools \ {"search"}
    /\ \E r \in ResultsFor("search") : r.payload.kind = "Unknown tool"

----------------------------------------------------------------------------
(* Properties of the orchestrator, checked under SpecPipe and SpecQuestions *)

FanOutStages == {"parallel_research", "validation"}

\* run_parallel_agents or run_validation is about to return results
BatchReturning == ppc = "batch_return"

\* the agent ids of a list of result dicts
IdsOf(rs) == {rs[k].agent_id : k \in 1..Len(rs)}

\* C2 (the claim as stated): a fan-out batch never ends by raising, and the list
\* it returns has exactly one result per submitted agent, tagged with that
\* agent's id, whatever tasks succeeded, raised or were still running at the
\* timeout.
CE_C2 ==
    /\ ppc = "raised" => perror.stage \notin FanOutStages
    /\ BatchReturning =>
          /\ Len(results) = Len(BatchAgents(frame.stage))
          /\ IdsOf(results) = {BatchAgents(frame.stage)[k] :
                                  k \in 1..Len(BatchAgents(frame.stage))}

\* the timeout expired in the research batch with some task unfinished
ResearchTimedOut ==
    /\ late # {}
    /\ perror.type = "TimeoutError"
    /\ perror.stage = "parallel_research"

\* C3 (the claim as stated): after a research task exceeded task_timeout,
\* orchestrate does not abort; once the batch is over the research results are 4
\* entries, the late agent's entry an error with a non-empty message, and
\* first_synthesis has been started.
CE_C3 ==
    ResearchTimedOut =>
        /\ ppc # "raised"
        /\ ppc # "batch_unwind" =>
              /\ Len(all_results.research_results) = Len(ResearchAgents)
              /\ \A a \in late : \E k \in 1..Len(all_results.research_results) :
                    /\ all_results.research_results[k].agent_id = a
                    /\ all_results.research_results[k].status = "error"
                    /\ all_results.research_results[k].response # <<>>
              /\ stage_progress["first_synthesis"] # Absent

\* generate_questions has run its agent and is past the try statement
PastQuestionRun ==
    /\ frame.fn = "generate_questions"
    /\ ppc \in {"gq_done_agent", "gq_done_stage", "gq_return", "raised"}

\* a Python list of exactly 4 str
IsFourStrings(v) ==
    /\ v.t = "list"
    /\ Len(v.items) = 4
    /\ \A k \in 1..4 : v.items[k].t = "str"

\* C4 (the claim as stated): whatever text the stage-1 agent run returns,
\* generate_questions does not raise and returns a list of exactly 4 strings.
CE_C4 ==
    (PastQuestionRun /\ ~frame.run.raised) =>
        /\ ppc # "raised"
        /\ ppc = "gq_return" => IsFourStrings(frame.out.questions)

\* C5 (the claim as stated): when the completion call of the question agent
\* fails, generate_questions recovers with the fallback questions and orchestrate
\* does not raise.
CE_C5 ==
    (PastQuestionRun /\ frame.run.raised) =>
        /\ ppc # "raised"
        /\ frame.out.questions = Fallback(user_input)

\* C6: when the stage-1 agent run returns the JSON text of an array of 4
\* strings, generate_questions returns exactly those 4 strings, in order, and
\* has recorded question_generation (and question_gen) as COMPLETED.
Thm_C6 ==
    \A strs \in FourStrings :
        (ppc = "gq_return" /\ frame.run.text \in Renderings(strs)) =>
            /\ frame.out.questions = ListVal([k \in 1..4 |-> StrVal(strs[k])])
            /\ stage_progress["question_generation"] = "COMPLETED"
            /\ agent_progress["question_gen"].status = "COMPLETED"

\* C6 witness: the array came as the transcript of two turns and was returned
Wit_C6 ==
    /\ ppc = "gq_return"
    /\ frame.run.text = TwoTurnArrayText(<<<<"b">>, <<"a">>, <<"c">>, <<"d">>>>)
    /\ frame.out.questions =
          ListVal(<<StrVal(<<"b">>), StrVal(<<"a">>), StrVal(<<"c">>), StrVal(<<"d">>)>>)

\* the four templates, each ending with the query
TemplatesFor(query) ==
    ListVal(<<StrVal(<<"Research comprehensive information about: ">> \o query),
              StrVal(<<"Analyze and provide insights about: ">> \o query),
              StrVal(<<"Find alternative perspectives on: ">> \o query),
              StrVal(<<"Verify and cross-check facts about: ">> \o query)>>)

\* C7: for a stage-1 response that json.loads rejects or whose value has a
\* length other than 4, the questions generate_questions returns are the four
\* templates ending with the user query: a function of the query alone.
Thm_C7 ==
    (ppc = "gq_return"
        /\ frame.run.text \in MalformedResponses \cup WrongLengthResponses)
        => frame.out.questions = TemplatesFor(user_input)

\* C7 witness: a 3-element array was answered and the templates were returned
Wit_C7 ==
    /\ ppc = "gq_return"
    /\ frame.run.text = ArrayText(<<<<"a">>, <<"b">>, <<"c">>>>)
    /\ user_input = <<"Why is the sky blue?">>
    /\ frame.out.questions = TemplatesFor(<<"Why is the sky blue?">>)

----------------------------------------------------------------------------
(* Properties of the tracker, the stage order, the errors and the callback,  *)
(* checked under SpecPipe                                                     *)

\* how far a status is: not recorded, queued, at work, ended
Rank(status) ==
    CASE status = Absent -> 0
      [] status = "QUEUED" -> 1
      [] status \in {"PROCESSING", "IN_PROGRESS"} -> 2
      [] status \in {"COMPLETED", "FAILED"} -> 3

\* C13: in every step of an orchestrate run, whichever thread takes it, no stage
\* key and no agent key moves backwards: an ended key (COMPLETED, FAILED) is never
\* set back to QUEUED, PROCESSING or IN_PROGRESS, nor PROCESSING back to QUEUED.
Thm_C13 ==
    [][/\ \A st \in StageSet : Rank(stage_progress'[st]) >= Rank(stage_progress[st])
       /\ \A a \in AgentIds :
             Rank(agent_progress'[a].status) >= Rank(agent_progress[a].status)]_vars

\* C13 witness: the workers are at three different points of the research batch
Wit_C13 ==
    /\ agent_progress["research"].status = "COMPLETED"
    /\ agent_progress["analysis"].status = "PROCESSING"
    /\ agent_progress["alternatives"].status = "QUEUED"
    /\ agent_progress["verification"].status = "FAILED"

Started(stage) == stage_progress[stage] # Absent

Resolved(a) == agent_progress[a].status \in {"COMPLETED", "FAILED"}

\* C14: once first_synthesis has been set IN_PROGRESS every research agent has
\* ended (none is QUEUED or PROCESSING), once final_synthesis has been set
\* IN_PROGRESS both validators have ended, and a stage is started only after the
\* stage before it in question_generation, parallel_research, first_synthesis,
\* validation, final_synthesis.
Thm_C14 ==
    /\ Started("first_synthesis") =>
          \A k \in 1..Len(ResearchAgents) : Resolved(ResearchAgents[k])
    /\ Started("final_synthesis") =>
          \A k \in 1..Len(Validators) : Resolved(Validators[k])
    /\ \A k \in 2..Len(StageNames) : Started(StageNames[k]) => Started(StageNames[k - 1])

\* C14 witness: final_synthesis is at work after one validator failed and the
\* other completed
Wit_C14 ==
    /\ stage_progress["final_synthesis"] = "IN_PROGRESS"
    /\ agent_progress["validator_1"].status = "FAILED"
    /\ agent_progress["validator_2"].status = "COMPLETED"

\* what the task of agent a must yield, given how its agent run ended
OwnResult(a) ==
    IF tasks[a].run.raised
    THEN [agent_id |-> a, status |-> "error",
          response |-> <<"Error: ">> \o tasks[a].run.text]
    ELSE [agent_id |-> a, status |-> "success", response |-> tasks[a].run.text]

\* C15: a fan-out task whose agent run raised yields a result with status error
\* and a response that describes the exception; no batch and no orchestrate call
\* ever raises because of it (a fan-out stage raises on the timeout only); and a
\* batch that returns holds the own result of every task, failed or not.
Thm_C15 ==
    /\ \A a \in FanOutAgents :
          (tasks[a].st = "done" /\ tasks[a].run.raised) =>
              /\ tasks[a].result = OwnResult(a)
              /\ tasks[a].result.status = "error"
              /\ agent_progress[a].status = "FAILED"
    /\ (ppc = "raised" /\ perror.stage \in FanOutStages) => perror.type = "TimeoutError"
    /\ BatchReturning =>
          \A k \in 1..Len(BatchAgents(frame.stage)) :
              \E j \in 1..Len(results) : results[j] = OwnResult(BatchAgents(frame.stage)[k])

\* C15 witness: the research batch returns after the run of analysis raised and
\* the three others succeeded
Wit_C15 ==
    /\ BatchReturning
    /\ frame.stage = "parallel_research"
    /\ \A a \in {"research", "analysis", "alternatives", "verification"} :
          tasks[a].run.raised = (a = "analysis")

\* the agent run of a synthesis stage raised
SynthesisRaised ==
    /\ frame.fn \in {"first_synthesis", "final_synthesis"}
    /\ ppc \in {"syn_done_agent", "syn_done_stage", "syn_return", "raised"}
    /\ frame.run.raised

StagesAfter(stage) ==
    {StageNames[k] : k \in {j \in 1..Len(StageNames) :
        \E i \in 1..(j - 1) : StageNames[i] = stage}}

\* C16: when the agent run of first_synthesis or final_synthesis raises, the
\* stage function never returns: orchestrate raises that same exception, with the
\* stage and its agent recorded FAILED, every later stage absent from the stage
\* map and the result of the failed stage never stored.
Thm_C16 ==
    SynthesisRaised =>
        /\ ppc # "syn_return"
        /\ ppc = "raised" =>
              /\ perror.type = "Exception"
              /\ perror.message = frame.run.text
              /\ stage_progress[frame.stage] = "FAILED"
              /\ agent_progress[StageAgent(frame.stage)].status = "FAILED"
              /\ \A st \in StagesAfter(frame.stage) : ~Started(st)
              /\ all_results.final_result = <<>>
              /\ frame.stage = "first_synthesis" =>
                    (all_results.first_draft = <<>> /\ all_results.validation_results = <<>>)

\* C16 witness: orchestrate raised out of first_synthesis
Wit_C16 ==
    /\ ppc = "raised"
    /\ frame.fn = "first_synthesis"
    /\ stage_progress["first_synthesis"] = "FAILED"
    /\ stage_progress["validation"] = Absent

\* the exception says which stage failed: by its class or somewhere in str(e)
ErrorNames(e, stage) ==
    \/ e.type = stage
    \/ \E i \in 1..Len(e.message) : e.message[i] = stage

\* C17 (the claim as stated): when the completion call of stage 3 fails, the
\* exception orchestrate raises names first_synthesis.
CE_C17 ==
    (ppc = "raised" /\ frame.fn = "first_synthesis") =>
        ErrorNames(perror, "first_synthesis")

\* the five labels a caller is to see, in stage order
ExpectedLabels ==
    <<"Generating specialized questions", "Running parallel research agents",
      "Synthesizing first draft", "Running validation agents", "Creating final answer">>

\* the labels of the first n stages
LabelsUpTo(n) == SubSeq(ExpectedLabels, 1, n)

StageIndex(stage) == CHOOSE k \in 1..Len(StageNames) : StageNames[k] = stage

StartedCount == Cardinality({st \in StageSet : Started(st)})

\* C20: the callback is called by the orchestrating thread only, once per stage
\* with the label of that stage, in stage order and before the stage is set
\* IN_PROGRESS; 5 times in a run that returns, k times in a run that raises in
\* stage k.
Thm_C20 ==
    /\ [](/\ \E n \in 0..Len(StageNames) : callbacks = LabelsUpTo(n)
          /\ \A k \in 1..Len(StageNames) : Started(StageNames[k]) => Len(callbacks) >= k
          /\ Len(callbacks) <= StartedCount + 1
          /\ ppc = "done" => Len(callbacks) = Len(StageNames)
          /\ ppc = "raised" => Len(callbacks) = StageIndex(perror.stage))
    /\ [][callbacks' # callbacks => ppc' # ppc]_vars

\* C20 witness: a run that raised in validation after exactly 4 calls
Wit_C20 ==
    /\ ppc = "raised"
    /\ perror.stage = "validation"
    /\ callbacks = LabelsUpTo(4)

----------------------------------------------------------------------------
(* The end-to-end scenario, checked under SpecComplete *)

\* C18 (the claim as stated): against a provider that calls mark_task_complete in
\* the first reply of every agent run, orchestrate raises only if the timeout
\* expires, and when it returns all five stages are COMPLETED and final_result is
\* not empty.
CE_C18 ==
    /\ ppc = "raised" => perror.type = "TimeoutError"
    /\ ppc = "done" =>
          /\ \A st \in StageSet : stage_progress[st] = "COMPLETED"
          /\ all_results.final_result # <<>>

----------------------------------------------------------------------------
(* The polled tracker, checked under SpecPoll *)

\* no orchestrate call was made yet on the object
NeverCalled == ppc = "idle" /\ calls_left = MaxCalls

\* C19 (the claim as stated): every get_progress_status call returns a pair of
\* maps the tracker held at some instant of the call; what a call would return is
\* two empty maps before the first orchestrate call and, between the return of
\* orchestrate and the next call, the final state with all five stages COMPLETED.
CE_C19 ==
    /\ ~torn
    /\ NeverCalled =>
          /\ \A st \in StageSet : stage_progress[st] = Absent
          /\ \A a \in AgentIds : agent_progress[a] = NoEntry
    /\ ppc = "done" => \A st \in StageSet : stage_progress[st] = "COMPLETED"

----------------------------------------------------------------------------
(* The tools of the fan-out agents, checked under SpecPipe *)

\* a fan-out agent whose agent.run was called
RanAgent(a) == tasks[a].st = "done"

\* C21: each of the four research agents runs with its tools restricted to
\* search and calculator: when its run starts, its tool_mapping holds (and the
\* provider is offered) no other discovered tool.
CE_C21 ==
    \A k \in 1..Len(ResearchAgents) :
        RanAgent(ResearchAgents[k]) => tasks[ResearchAgents[k]].tools \subseteq KeptTools

\* what does hold of the validators: they run with search and calculator only
ValidatorsRestricted ==
    \A k \in 1..Len(Validators) :
        RanAgent(Validators[k]) => tasks[Validators[k]].tools = KeptTools

----------------------------------------------------------------------------
(* The prompt of first_synthesis, checked under SpecPipe *)

\* first_synthesis has built its prompt and run its agent
FirstSynthesisBuilt == ppc = "syn_done_agent" /\ frame.stage = "first_synthesis"

Labels(block) == [k \in 1..Len(block) |-> block[k].label]

CanonicalLabels == <<"RESEARCH", "ANALYSIS", "ALTERNATIVES", "VERIFICATION">>

\* C22: the labeled block first_synthesis builds lists the research agents in
\* the canonical order research, analysis, alternatives, verification, whatever
\* the order the parallel tasks completed in.
CE_C22 == FirstSynthesisBuilt => Labels(frame.prompt) = CanonicalLabels

\* what does hold: the sections follow the order of research_results, each under
\* the label of its own agent
SectionsFollowResults ==
    FirstSynthesisBuilt =>
        /\ Len(frame.prompt) = Len(all_results.research_results)
        /\ \A k \in 1..Len(frame.prompt) :
              /\ frame.prompt[k].label =
                    CanonicalLabels[AgentIndex(all_results.research_results[k].agent_id)]
              /\ frame.prompt[k].response = all_results.research_results[k].response

----------------------------------------------------------------------------
(* The timeout of a fan-out stage, checked under SpecPipe *)

\* task_timeout has expired in as_completed and the stage function has not yet
\* handed control back to orchestrate
TimedOutInStage == ppc = "batch_unwind"

\* a task the collector gave up on is still running
SlowTaskRunning == \E a \in late : tasks[a].st # "done"

\* C23: when task_timeout expires while a task is still running, the
\* orchestrating thread stops waiting: the stage call hands control back without
\* waiting for that task to finish, and the slow task is left to complete later.
CE_C23 == (TimedOutInStage /\ SlowTaskRunning) => ENABLED Batch_Unwind

\* what does hold: control leaves the stage call only when every submitted task
\* has finished
JoinedBeforeRaise ==
    (ppc = "raised" /\ perror.type = "TimeoutError") =>
        \A a \in late : tasks[a].st = "done"

----------------------------------------------------------------------------
(* Replies without tool calls, checked under SpecAgent *)

\* the step is a completion call
CompletionCall == apc = "loop" /\ llm_calls' = llm_calls + 1

\* the reply the next completion call gets
NextReply == ReplyAt(script, iteration + 1)

\* run is back at the while test with the assistant message appended to the
\* conversation
LoopGoesOn ==
    /\ apc' = "loop"
    /\ Len(messages') = Len(messages) + 1
    /\ messages'[Len(messages')].role = "assistant"
    /\ messages'[Len(messages')].tool_calls = <<>>

\* at the while test under the cap the only step run takes is a completion call
UnderCapCalls ==
    (apc = "loop" /\ LoopGuard(iteration, TurnCap)) => CompletionCall

\* C24 as stated: a provider response with zero tool calls never ends the agent
\* loop, for either provider; under the cap the next step is another completion
\* call on the extended conversation.
CE_C24 ==
    /\ [][(CompletionCall /\ NextReply.kind # "raise" /\ NextReply.calls = <<>>)
             => LoopGoesOn]_vars
    /\ [][UnderCapCalls]_vars

\* C24, amended: a reply that carries an assistant message with zero tool calls
\* never ends the agent loop, for either provider: run is back at the while test
\* with the message appended, and under the cap its next step is another
\* completion call.  (A Gemini response without candidates carries no message and
\* does end the loop.)
Thm_C24 ==
    /\ [][(CompletionCall /\ NextReply.kind = "message" /\ NextReply.calls = <<>>)
             => LoopGoesOn]_vars
    /\ [][UnderCapCalls]_vars

\* a second completion call was made right after a reply without tool calls
Wit_C24 ==
    /\ llm_calls = 2
    /\ ReplyAt(script, 1).kind = "message"
    /\ ReplyAt(script, 1).calls = <<>>
    /\ events = <<"llm", "llm">>

----------------------------------------------------------------------------
(* remove_tool during a run, checked under SpecLive *)

\* the step looks a tool call up in self.tool_mapping
ToolLookup == apc = "tools" /\ events' # events

\* C25: remove_tool called on an agent while its run is in flight has no effect
\* on that run: every remaining completion call offers the tools the run started
\* with, and every remaining tool call is looked up among the tools the run
\* started with.
CE_C25 ==
    /\ [][CompletionCall => OfferedTools = DiscoveredTools]_vars
    /\ [][ToolLookup => tool_mapping = DiscoveredTools]_vars

\* what does hold, for Gemini only: the tools offered are those of the config
\* built before the loop
GeminiOffersConfig ==
    [][(CompletionCall /\ provider = "gemini") => OfferedTools = DiscoveredTools]_vars

----------------------------------------------------------------------------
(* The tracker when orchestrate is over, checked under SpecPipe *)

\* orchestrate has returned or raised
OrchestrateOver == ppc \in {"done", "raised"}

Terminal == {"COMPLETED", "FAILED"}

\* C26: when orchestrate finishes, by return or by exception, every stage that
\* was set IN_PROGRESS is COMPLETED or FAILED and every agent that was QUEUED or
\* PROCESSING is COMPLETED or FAILED: no key is left in a non-terminal status.
CE_C26 ==
    OrchestrateOver =>
        /\ \A st \in StageSet : stage_progress[st] \in Terminal \cup {Absent}
        /\ \A a \in AgentIds : agent_progress[a].status \in Terminal \cup {Absent}

\* what does hold: a run that returns leaves every key terminal
ReturnLeavesTerminal ==
    ppc = "done" =>
        /\ \A st \in StageSet : stage_progress[st] \in Terminal
        /\ \A a \in AgentIds : agent_progress[a].status \in Terminal

----------------------------------------------------------------------------
(* Fan-out stages and their agents in the tracker, checked under SpecPipe *)

\* the stage a fan-out agent belongs to
StageOf(a) ==
    IF \E k \in 1..Len(ResearchAgents) : ResearchAgents[k] = a
    THEN "parallel_research" ELSE "validation"

\* C27: in every state of the tracker (every state get_progress_status can
\* return), if parallel_research is COMPLETED then each of its four agents is
\* COMPLETED or FAILED, and if validation is COMPLETED then each of its two
\* agents is COMPLETED or FAILED.
Thm_C27 ==
    \A a \in FanOutAgents :
        stage_progress[StageOf(a)] = "COMPLETED" => agent_progress[a].status \in Terminal

\* both fan-out stages are COMPLETED, each with an agent that FAILED
Wit_C27 ==
    /\ stage_progress["parallel_research"] = "COMPLETED"
    /\ stage_progress["validation"] = "COMPLETED"
    /\ agent_progress["analysis"].status = "FAILED"
    /\ agent_progress["research"].status = "COMPLETED"
    /\ agent_progress["validator_2"].status = "FAILED"
    /\ agent_progress["validator_1"].status = "COMPLETED"

----------------------------------------------------------------------------
(* Runs of an agent stripped of mark_task_complete, checked under SpecTools *)

\* run has returned on an agent whose mark_task_complete tool was removed; the
\* providers of SpecTools never raise
StrippedRunOver == Sentinel \in removed /\ apc = "returned"

\* C28: an agent whose mark_task_complete tool has been removed can end its run
\* only by reaching the iteration cap (or by a completion failure): with a
\* provider that never raises it makes exactly max_iterations completion calls,
\* even if the provider emits a call named mark_task_complete.
CE_C28 == StrippedRunOver => llm_calls = TurnCap

\* what does hold: a stripped agent that stops short of the cap stopped on a call
\* named mark_task_complete, and that call was never executed
StrippedStopsOnName ==
    (StrippedRunOver /\ llm_calls < TurnCap) =>
        /\ by_sentinel
        /\ Sentinel \notin invoked
        /\ \E r \in ResultsFor(Sentinel) : r.payload.error

----------------------------------------------------------------------------
(* The event streams of the web server, checked under SpecWeb *)

\* the statuses the tracker holds, key by key, are the ones progress_monitor had
\* put when the run thread put 'done'
SeenFinalStatus ==
    /\ \A st \in StageSet :
          stage_progress[st] # Absent => seen_at_done.stages[st] = stage_progress[st]
    /\ \A a \in AgentIds :
          agent_progress[a].status # Absent =>
              seen_at_done.agents[a] = agent_progress[a].status

\* C29: in a Megamind web run, every stage and agent status the tracker recorded
\* before orchestrate returned has been put on the session queue by
\* progress_monitor before the run thread puts 'done': a consumer that stops at
\* 'done' has seen the final status of every stage and agent.
CE_C29 == (route = "megamind" /\ wpc = "finished") => SeenFinalStatus

\* how many events of the sequence have one of the types
RECURSIVE CountOf(_, _)
CountOf(evs, types) ==
    IF evs = <<>> THEN 0
    ELSE (IF Head(evs).type \in types THEN 1 ELSE 0) + CountOf(Tail(evs), types)

\* the position of the first event of one of the types, 0 if there is none
FirstOf(evs, types) ==
    IF \E k \in 1..Len(evs) : evs[k].type \in types
    THEN CHOOSE k \in 1..Len(evs) :
             /\ evs[k].type \in types
             /\ \A j \in 1..(k - 1) : evs[j].type \notin types
    ELSE 0

----------------------------------------------------------------------------
(* Two runs under one session_id, checked under SpecSessions *)

\* every event a run thread put went to the queue its own request created
OwnQueueOnly == \A p \in put_log : p[2] = p[1]

\* every del of a finishing stream removed the queue that stream was reading
RemovesOwnQueue == \A d \in del_log : d[2] = d[1]

\* C31: when two runs are started with the same session_id and their run threads
\* and stream readers interleave, each run's events go only to the queue created
\* by its own request, and a stream reader that finishes removes from
\* progress_queues only the queue it was reading, never that of the newer run.
CE_C31 == OwnQueueOnly /\ RemovesOwnQueue

\* what does hold: a run thread puts all its events on one queue, the one it
\* looked up when it started
OneQueuePerThread ==
    \A p \in put_log : req_pc[p[1]] # "dead" /\ p[2] = thread_q[p[1]]

----------------------------------------------------------------------------
(* The end of progress_monitor, checked under SpecWebLive *)

\* the run thread has put 'done' while its monitor thread is in its loop
MonitorOutlivesRun == wpc = "finished" /\ monitoring

\* C32: the progress_monitor thread started for a multi-agent or Megamind run
\* eventually stops after that run has put its 'done' event: no monitor keeps
\* polling (or putting events) forever once the run is over.
CE_C32 == MonitorOutlivesRun ~> ~monitoring

\* what does hold: once started, the monitor is in its loop for ever
MonitorNeverStops == [][monitoring => monitoring']_vars

====
